---- MODULE Spec2Model ----
(***************************************************************************)
(* Model of the vlxck secret store: the store codec (internal/store), the  *)
(* AEAD/KDF layer (internal/crypto), the passphrase cache (internal/cache) *)
(* and the commands with their signal listener (cmd).                      *)
(*                                                                         *)
(* Files are sequences of symbolic bytes.  Cryptography is modelled as     *)
(* perfect: a key is the pair (passphrase, salt), a sealed byte names the  *)
(* key and nonce it was sealed under, and the tag authenticates the whole  *)
(* ciphertext body.  Random draws are fresh (never repeated).              *)
(*                                                                         *)
(* Specifications: Spec (store API), SpecFault (SaveStore under failing    *)
(* system calls), SpecAdd, SpecUpdate, SpecImport (one command each),      *)
(* SpecCache (cache API), SpecSteps (cache calls step by step, with the    *)
(* signal listener), SpecProc (a command process), SpecKeep (commands one  *)
(* after another, import among them), SpecList (the page loop of list).    *)
(***************************************************************************)
EXTENDS Integers, Sequences, FiniteSets, TLC

(***************************************************************************)
(* Bounds                                                                  *)
(***************************************************************************)
MaxSaves == 2       \* number of Encrypt calls (nonce draws) explored
MaxSecrets == 2     \* longest secret list drawn as an input
WriteChunk == 10    \* bytes that reach the disk per step of os.WriteFile
MaxTime == 7         \* minutes the clock runs
MaxSets == 2         \* cache nonces drawn
MaxListed == 21      \* most secrets that pass the filter of list
MaxInput == 3        \* most lines on stdin before it ends
MaxDisplays == 6     \* displays of a page followed in one run of list

(***************************************************************************)
(* Program constants                                                       *)
(***************************************************************************)
SaltLen == 16
NonceLen == 12
HeaderLen == 28
\* the version InitializeStore gives a new store
CurrentVersion == 1

Passphrases == {"p1", "p2"}
Names == {"a", "b", "c"}

(***************************************************************************)
(* store.Secret and store.Store                                            *)
(***************************************************************************)
ZeroTime == 0

Secret(name, value, category, createdAt) ==
    [Name |-> name, Value |-> value, Category |-> category, CreatedAt |-> createdAt]

\* two variants per name that differ in every field but the name
Variant(name, k) ==
    IF k = 1 THEN Secret(name, "1", "", ZeroTime) ELSE Secret(name, "2", "w", 1)

NoSecret == Secret("", "", "", ZeroTime)

Store(version, secrets) == [Version |-> version, Secrets |-> secrets]

NilStore == Store(0, <<>>)

SeqsUpTo(E, n) == UNION {[1..k -> E] : k \in 0..n}

DistinctNames(secrets) ==
    \A i, j \in 1..Len(secrets) : secrets[i].Name = secrets[j].Name => i = j

NamesOf(secrets) == {secrets[i].Name : i \in 1..Len(secrets)}

(***************************************************************************)
(* Symbolic bytes and files                                                *)
(***************************************************************************)
ZeroByte == [z |-> 0]

SaltBytes(id) == [i \in 1..SaltLen |-> [salt |-> id]]
NonceBytes(id) == [i \in 1..NonceLen |-> [nonce |-> id]]

NoFile == [exists |-> FALSE, data |-> <<>>]
FileOf(bytes) == [exists |-> TRUE, data |-> bytes]

Prefix(s, n) == SubSeq(s, 1, IF n < Len(s) THEN n ELSE Len(s))

\* data[:n] of a slice returned by os.ReadFile: the slice has capacity >= 512,
\* so the expression reads the zeroed tail of the buffer instead of failing
SliceTo(data, n) == [i \in 1..n |-> IF i <= Len(data) THEN data[i] ELSE ZeroByte]

(***************************************************************************)
(* internal/crypto                                                         *)
(***************************************************************************)
\* a byte string written as its runs of equal bytes (one-to-one, only shorter)
RECURSIVE Runs(_)
Runs(s) ==
    IF s = <<>> THEN <<>>
    ELSE LET n == CHOOSE k \in 1..Len(s) :
                      /\ \A j \in 1..k : s[j] = s[1]
                      /\ (k = Len(s) \/ s[k + 1] # s[1])
         IN  <<<<s[1], n>>>> \o Runs(SubSeq(s, n + 1, Len(s)))

\* argon2.IDKey: one key per (password, salt), no two alike
DeriveKey(password, salt) == [pw |-> password, kdfSalt |-> Runs(salt)]

SealByte(p, key, nonce) == [ct |-> p, key |-> key, iv |-> Runs(nonce)]
TagByte(body, key, nonce) == [tag |-> body, key |-> key, iv |-> Runs(nonce)]

\* aesgcm.Seal(nil, nonce, plaintext, nil)
Seal(plaintext, key, nonce) ==
    LET body == [i \in 1..Len(plaintext) |-> SealByte(plaintext[i], key, nonce)]
    IN  Append(body, TagByte(body, key, nonce))

Encrypt(plaintext, key, nonce) == Seal(plaintext, key, nonce)

AuthError == "cipher: message authentication failed"

\* aesgcm.Open(nil, nonce, encrypted, nil)
Decrypt(encrypted, key, nonce) ==
    LET n == Len(encrypted)
        body == SubSeq(encrypted, 1, n - 1)
    IN  IF n >= 1 /\ encrypted[n] = TagByte(body, key, nonce)
        THEN [plaintext |-> [i \in 1..(n - 1) |-> body[i].ct], err |-> "nil"]
        ELSE [plaintext |-> <<>>, err |-> AuthError]

(***************************************************************************)
(* encoding/json on store.Store                                            *)
(***************************************************************************)
TNum(n) == [num |-> n]
TStr(s) == [str |-> s]
TTime(t) == [time |-> t]
TObj == [obj |-> "secret"]

\* variant of MarshalSecrets that leaves created_at out of the record
RECURSIVE MarshalSecretsNoTime(_)
MarshalSecretsNoTime(secrets) ==
    IF secrets = <<>> THEN <<>>
    ELSE LET s == Head(secrets)
         IN  <<TObj, TStr(s.Name), TStr(s.Value), TStr(s.Category), TTime(ZeroTime)>>
             \o MarshalSecretsNoTime(Tail(secrets))

RECURSIVE MarshalSecrets(_)
MarshalSecrets(secrets) ==
    IF secrets = <<>> THEN <<>>
    ELSE LET s == Head(secrets)
         IN  <<TObj, TStr(s.Name), TStr(s.Value), TStr(s.Category), TTime(s.CreatedAt)>>
             \o MarshalSecrets(Tail(secrets))

Marshal(store) == <<TNum(store.Version)>> \o MarshalSecrets(store.Secrets)

IsSecretTokens(t) ==
    /\ Len(t) = 5
    /\ t[1] = TObj
    /\ DOMAIN t[2] = {"str"} /\ DOMAIN t[3] = {"str"} /\ DOMAIN t[4] = {"str"}
    /\ DOMAIN t[5] = {"time"}

RECURSIVE UnmarshalSecrets(_)
UnmarshalSecrets(tokens) ==
    IF tokens = <<>> THEN [ok |-> TRUE, secrets |-> <<>>]
    ELSE IF Len(tokens) < 5 \/ ~IsSecretTokens(SubSeq(tokens, 1, 5))
         THEN [ok |-> FALSE, secrets |-> <<>>]
         ELSE LET rest == UnmarshalSecrets(SubSeq(tokens, 6, Len(tokens)))
                  s == Secret(tokens[2].str, tokens[3].str, tokens[4].str, tokens[5].time)
              IN  [ok |-> rest.ok, secrets |-> <<s>> \o rest.secrets]

JSONError == "json: cannot unmarshal"

Unmarshal(plaintext) ==
    IF plaintext = <<>> \/ DOMAIN plaintext[1] # {"num"}
    THEN [store |-> NilStore, err |-> JSONError]
    ELSE LET r == UnmarshalSecrets(Tail(plaintext))
         IN  IF r.ok THEN [store |-> Store(plaintext[1].num, r.secrets), err |-> "nil"]
             ELSE [store |-> NilStore, err |-> JSONError]

(***************************************************************************)
(* store.LoadStore                                                         *)
(***************************************************************************)
ErrNotExist == "store file does not exist"
ErrEmpty == "store file is empty"

LoadResult(hasStore, store, err, panic) ==
    [hasStore |-> hasStore, store |-> store, err |-> err, panic |-> panic]

\* variant of IsNotExist that also accepts LoadStore's own "does not exist"
IsNotExistByMessage(err) == err \in {"ENOENT", ErrNotExist}

\* os.IsNotExist(err): true only of the error values of the os package; the
\* errors LoadStore builds with fmt.Errorf do not wrap one
IsNotExist(err) == err = "ENOENT"

\* variant of LoadStore that answers a failed decryption with an empty store
LoadStoreLenient(f, password) ==
    IF ~f.exists THEN LoadResult(TRUE, Store(0, <<>>), ErrNotExist, FALSE)
    ELSE IF Len(f.data) = 0 THEN LoadResult(TRUE, Store(0, <<>>), ErrEmpty, FALSE)
    ELSE IF Len(f.data) < HeaderLen THEN LoadResult(FALSE, NilStore, "nil", TRUE)
    ELSE LET d == Decrypt(SubSeq(f.data, HeaderLen + 1, Len(f.data)),
                          DeriveKey(password, SliceTo(f.data, SaltLen)),
                          SubSeq(f.data, SaltLen + 1, HeaderLen))
         IN  IF d.err # "nil" THEN LoadResult(TRUE, Store(0, <<>>), "nil", FALSE)
             ELSE LET u == Unmarshal(d.plaintext)
                  IN  IF u.err # "nil" THEN LoadResult(FALSE, NilStore, u.err, FALSE)
                      ELSE LoadResult(TRUE, u.store, "nil", FALSE)

LoadStore(f, password) ==
    IF ~f.exists THEN LoadResult(TRUE, Store(0, <<>>), ErrNotExist, FALSE)
    ELSE IF Len(f.data) = 0 THEN LoadResult(TRUE, Store(0, <<>>), ErrEmpty, FALSE)
    ELSE IF Len(f.data) < HeaderLen
         THEN LoadResult(FALSE, NilStore, "nil", TRUE)   \* data[28:] is out of range
    ELSE LET salt == SliceTo(f.data, SaltLen)
             nonce == SubSeq(f.data, SaltLen + 1, HeaderLen)
             encrypted == SubSeq(f.data, HeaderLen + 1, Len(f.data))
             key == DeriveKey(password, salt)
             d == Decrypt(encrypted, key, nonce)
         IN  IF d.err # "nil" THEN LoadResult(FALSE, NilStore, d.err, FALSE)
             ELSE LET u == Unmarshal(d.plaintext)
                  IN  IF u.err # "nil" THEN LoadResult(FALSE, NilStore, u.err, FALSE)
                      ELSE LoadResult(TRUE, u.store, "nil", FALSE)

LoadOk(r) == r.hasStore /\ r.err = "nil" /\ ~r.panic

(***************************************************************************)
(* store.SaveStore: the bytes it hands to os.WriteFile                     *)
(***************************************************************************)
\* variant of SaveSalt that draws a salt on every save
SaveSaltAlwaysFresh(f, freshSalt) == SaltBytes(freshSalt)

\* salt: reused from the existing file, drawn fresh when os.Stat fails
SaveSalt(f, freshSalt) == IF f.exists THEN SliceTo(f.data, SaltLen) ELSE SaltBytes(freshSalt)

SaveData(f, password, store, freshSalt, freshNonce) ==
    LET salt == SaveSalt(f, freshSalt)
        key == DeriveKey(password, salt)
        nonce == NonceBytes(freshNonce)
    IN  salt \o nonce \o Encrypt(Marshal(store), key, nonce)

(***************************************************************************)
(* State                                                                   *)
(***************************************************************************)
VARIABLES
    file,       \* the store file at getStorePath()
    copy,       \* a copy of the store file with one ciphertext byte altered
    pc,         \* position of the running call: "idle" when none runs
    saveData,   \* SaveStore: the bytes handed to os.WriteFile
    saveOld,    \* SaveStore: the file as it was when the call started
    savePass,   \* SaveStore: the password argument
    saveStore,  \* SaveStore: the store argument
    result,     \* outcome of the last SaveStore call
    pathSalt,   \* salt of the file created by a save, while only saves touched it since
    loaded,     \* what the last LoadStore call returned
    saltCtr,    \* salts drawn from crypto/rand so far
    nonceCtr,   \* nonces drawn from crypto/rand so far
    cmd,        \* the last command run and how it ended
    mg,         \* importCmd: the merge loop's locals
    cacheFile,  \* the cache file, password.cache in the user's config directory
    tmpFile,    \* cacheFile + ".tmp", written by SetMasterPassword
    now,        \* the wall clock, in minutes
    cacheCall,  \* the last call into package cache and what it returned
    lastSet,    \* what the last SetMasterPassword stored, while no clear followed
    setCtr,     \* cache nonces drawn from crypto/rand so far
    run,        \* the command process that is running: its main goroutine
    sig,        \* the signal listener goroutine of that process
    exited,     \* how the last command process ended
    fault,      \* the system call that fails under the running SaveStore, and its error
    mutex,      \* cacheKeyMutex: the number of read locks held
    cacheOp,    \* the call into package cache that is under way, with its locals
    pg          \* listCmd: the page loop's locals and what is left on stdin

extVars == <<fault, mutex, cacheOp, pg>>

cacheVars ==
    <<cacheFile, tmpFile, now, cacheCall, lastSet, setCtr, run, sig, exited, extVars>>

vars == <<file, copy, pc, saveData, saveOld, savePass, saveStore, result, pathSalt,
          loaded, saltCtr, nonceCtr, cmd, mg, cacheVars>>

saveVars == <<saveData, saveOld, savePass, saveStore>>
randVars == <<saltCtr, nonceCtr>>
cmdVars == <<cmd, mg>>

NoSalt == <<>>
NotLoaded ==
    [called |-> FALSE, of |-> "", pass |-> "", r |-> LoadResult(FALSE, NilStore, "nil", FALSE)]
NoCmd == [op |-> "none"]
NoMerge == [active |-> FALSE]
NoCacheFile == [exists |-> FALSE, data |-> [none |-> TRUE]]
NoCall ==
    [op |-> "none", password |-> "", timeout |-> 0, err |-> "nil", at |-> 0, n |-> 0,
     had |-> FALSE]
NoSet == [valid |-> FALSE, password |-> "", expiresAt |-> 0]
NoRun ==
    [op |-> "none", pc |-> "none", password |-> "", fromCache |-> FALSE, warned |-> FALSE,
     loadOk |-> FALSE, store |-> NilStore, unlockAt |-> 0, newPassword |-> "",
     signalled |-> FALSE, out |-> "none"]

NoFault == [step |-> "none", err |-> "nil"]
NoCacheOp ==
    [op |-> "none", pc |-> "idle", password |-> "", timeout |-> 0, data |-> NoCacheFile,
     old |-> NoCacheFile]
NoPager == [pc |-> "none"]

\* no failing system call, no cache call under way, no list command
ExtIdle ==
    /\ fault = NoFault
    /\ mutex = 0
    /\ cacheOp = NoCacheOp
    /\ pg = NoPager

\* no cache file, no command process
CacheIdle ==
    /\ ExtIdle
    /\ cacheFile = NoCacheFile
    /\ tmpFile = NoCacheFile
    /\ now = 0
    /\ cacheCall = NoCall
    /\ lastSet = NoSet
    /\ setCtr = 0
    /\ run = NoRun
    /\ sig = "wait"
    /\ exited = "none"

\* stores handed to the engine's entry points
ApiEntries == {Variant("a", 1), Variant("b", 2)}
ApiStores ==
    {Store(v, ss) : v \in {1, 2},
                    ss \in {x \in SeqsUpTo(ApiEntries, MaxSecrets) : DistinctNames(x)}}

Init ==
    /\ file = NoFile
    /\ copy = NoFile
    /\ pc = "idle"
    /\ saveData = <<>>
    /\ saveOld = NoFile
    /\ savePass = ""
    /\ saveStore = NilStore
    /\ result = "none"
    /\ pathSalt = NoSalt
    /\ loaded = NotLoaded
    /\ saltCtr = 0
    /\ nonceCtr = 0
    /\ cmd = NoCmd
    /\ mg = NoMerge
    /\ CacheIdle

(***************************************************************************)
(* store.SaveStore, step by step                                           *)
(***************************************************************************)
\* store.go:97-116: pick the salt, derive the key, marshal, encrypt, build data
\* drawn: the salts the caller has drawn from crypto/rand before the call
SaveStoreCall(password, store, drawn) ==
    /\ pc = "idle"
    /\ nonceCtr < MaxSaves
    /\ saveData' = SaveData(file, password, store, saltCtr + drawn + 1, nonceCtr + 1)
    /\ saveOld' = file
    /\ savePass' = password
    /\ saveStore' = store
    /\ saltCtr' = IF file.exists THEN saltCtr + drawn ELSE saltCtr + drawn + 1
    /\ nonceCtr' = nonceCtr + 1
    /\ pc' = "save_open"
    /\ result' = "running"
    /\ UNCHANGED <<file, copy, loaded, pathSalt, cmdVars, cacheVars>>

SaveStoreBegin == \E p \in Passphrases, s \in ApiStores : SaveStoreCall(p, s, 0)

\* store.go:133-140: draws a salt it never uses, then saves an empty version 1 store
InitializeStore == \E p \in Passphrases : SaveStoreCall(p, Store(1, <<>>), 1)

\* os.WriteFile opens the target itself with O_WRONLY|O_CREATE|O_TRUNC
WriteFileOpen ==
    /\ pc = "save_open"
    /\ file' = FileOf(<<>>)
    /\ pc' = "save_write"
    /\ UNCHANGED <<copy, saveVars, result, pathSalt, loaded, randVars, cmdVars, cacheVars>>

\* the bytes reach the file front to back
WriteFileWrite ==
    /\ pc = "save_write"
    /\ Len(file.data) < Len(saveData)
    /\ file' = FileOf(Prefix(saveData, Len(file.data) + WriteChunk))
    /\ UNCHANGED <<copy, pc, saveVars, result, pathSalt, loaded, randVars, cmdVars, cacheVars>>

SaveStoreReturn ==
    /\ pc = "save_write"
    /\ file.data = saveData
    /\ pc' = "idle"
    /\ result' = "ok"
    /\ pathSalt' = IF saveOld.exists THEN pathSalt ELSE SubSeq(saveData, 1, SaltLen)
    /\ UNCHANGED <<file, copy, saveVars, loaded, randVars, cmdVars, cacheVars>>

\* the process dies (kill, power loss) inside SaveStore
Crash ==
    /\ pc \in {"save_open", "save_write"}
    /\ pc' = "idle"
    /\ result' = "crashed"
    /\ pathSalt' = NoSalt
    /\ UNCHANGED <<file, copy, saveVars, loaded, randVars, cmdVars, cacheVars>>

(***************************************************************************)
(* store.LoadStore as a call                                               *)
(***************************************************************************)
LoadStoreCall ==
    /\ pc = "idle"
    /\ \E p \in Passphrases :
         loaded' = [called |-> TRUE, of |-> "store", pass |-> p, r |-> LoadStore(file, p)]
    /\ pc' = "loaded"
    /\ UNCHANGED <<file, copy, saveVars, result, pathSalt, randVars, cmdVars, cacheVars>>

(***************************************************************************)
(* Tampering: someone copies a saved store file and flips a bit of one     *)
(* byte of the ciphertext region (the bytes after salt and nonce), then    *)
(* LoadStore runs on the copy                                              *)
(***************************************************************************)
FlipBit(f, i) == FileOf([f.data EXCEPT ![i] = [flipped |-> @]])

LoadTamperedCopy ==
    /\ pc = "idle"
    /\ result = "ok"
    /\ \E i \in (HeaderLen + 1)..Len(file.data), p \in Passphrases :
         /\ copy' = FlipBit(file, i)
         /\ loaded' = [called |-> TRUE, of |-> "copy", pass |-> p, r |-> LoadStore(copy', p)]
    /\ pc' = "loaded"
    /\ UNCHANGED <<file, saveVars, result, pathSalt, randVars, cmdVars, cacheVars>>

\* the caller is done with what LoadStore returned
LoadStoreDone ==
    /\ pc = "loaded"
    /\ pc' = "idle"
    /\ loaded' = NotLoaded
    /\ copy' = NoFile
    /\ UNCHANGED <<file, saveVars, result, pathSalt, randVars, cmdVars, cacheVars>>

Next ==
    \/ SaveStoreBegin
    \/ InitializeStore
    \/ WriteFileOpen
    \/ WriteFileWrite
    \/ SaveStoreReturn
    \/ Crash
    \/ LoadStoreCall
    \/ LoadTamperedCopy
    \/ LoadStoreDone

Spec == Init /\ [][Next]_vars

(***************************************************************************)
(* The commands (cmd): add and import                                      *)
(***************************************************************************)
apiVars == <<copy, saveVars, result, pathSalt, loaded>>

\* SaveStore run to completion: the file it leaves
SaveStoreFile(f, password, store, freshSalt, freshNonce) ==
    FileOf(SaveData(f, password, store, freshSalt, freshNonce))

\* a store file somebody else wrote (an export, a backup, an earlier install)
ExternFile(password, store) == SaveStoreFile(NoFile, password, store, 0, 0)

DistinctSeqs(E) == {x \in SeqsUpTo(E, MaxSecrets) : DistinctNames(x)}

\* the store on disk holds first variants, an import file second variants
\* (an import file is any store file: its names may repeat)
LocalUniverse == {Variant(n, 1) : n \in Names}
ImportUniverse == {Variant(n, 2) : n \in Names}

InitFiles ==
    {NoFile} \cup {ExternFile("p1", Store(1, ss)) : ss \in DistinctSeqs(LocalUniverse)}

ImportFiles ==
    {NoFile, FileOf(<<>>)}
        \cup {ExternFile(p, Store(1, ss)) : p \in Passphrases,
                                           ss \in SeqsUpTo(ImportUniverse, MaxSecrets)}

\* what a command was given and how it ended
CmdLog(op, pw, name, valid, secret, hadFile, out) ==
    [op |-> op, pw |-> pw, name |-> name, valid |-> valid, secret |-> secret,
     hadFile |-> hadFile, out |-> out]

InitCmd ==
    /\ file \in InitFiles
    /\ copy = NoFile
    /\ pc = "idle"
    /\ saveData = <<>>
    /\ saveOld = NoFile
    /\ savePass = ""
    /\ saveStore = NilStore
    /\ result = "none"
    /\ pathSalt = NoSalt
    /\ loaded = NotLoaded
    /\ saltCtr = 0
    /\ nonceCtr = 0
    /\ cmd = NoCmd
    /\ mg = NoMerge
    /\ CacheIdle

\* variant of NameExists that never finds the name
NameExistsNever(secrets, name) == FALSE

\* add.go:155-160 and the validate function of PromptForSecretName
NameExists(secrets, name) == \E i \in 1..Len(secrets) : secrets[i].Name = name

\* utils.GeneratePassword: some random string
GeneratedValue == "g"

\* how addInteractive / addNonInteractive end for a loaded store and the inputs
AddOutcome(secrets, interactive, name, value, generate) ==
    IF interactive
    THEN IF name = "" \/ NameExists(secrets, name) THEN "prompt_failed"
         ELSE IF value = "" /\ ~generate THEN "prompt_failed"
         ELSE "added"
    ELSE IF name = "" THEN "name_required"
         ELSE IF value = "" /\ ~generate THEN "value_required"
         ELSE IF NameExists(secrets, name) THEN "exists"
         ELSE "added"

\* addCmd.Run with addInteractive / addNonInteractive
AddCmd(pw, interactive, name, value, generate, category) ==
    /\ pc = "idle"
    /\ nonceCtr < MaxSaves
    /\ \E r0 \in {LoadStore(file, pw)} :
       LET init == ~r0.panic /\ r0.err # "nil" /\ IsNotExist(r0.err)
           \* add.go:70-79: InitializeStore, then LoadStore again
           initFile == IF init
                       THEN SaveStoreFile(file, pw, Store(1, <<>>), saltCtr + 2, nonceCtr + 1)
                       ELSE file
           initSalt == IF init THEN (IF file.exists THEN saltCtr + 1 ELSE saltCtr + 2)
                       ELSE saltCtr
           initNonce == IF init THEN nonceCtr + 1 ELSE nonceCtr
       IN  \E r \in {IF init THEN LoadStore(initFile, pw) ELSE r0} :
           LET out == IF r.panic THEN "panic"
                      ELSE IF r.err # "nil" THEN "load_error"
                      ELSE AddOutcome(r.store.Secrets, interactive, name, value, generate)
               secretValue == IF generate THEN GeneratedValue ELSE value
               secret == Secret(name, secretValue, category, ZeroTime)
               valid == name # "" /\ (value # "" \/ generate)
               s == Store(r.store.Version, Append(r.store.Secrets, secret))
           IN  /\ IF out = "added"
                  THEN /\ file' = SaveStoreFile(initFile, pw, s, initSalt + 1, initNonce + 1)
                       /\ saltCtr' = IF initFile.exists THEN initSalt ELSE initSalt + 1
                       /\ nonceCtr' = initNonce + 1
                  ELSE /\ file' = initFile
                       /\ saltCtr' = initSalt
                       /\ nonceCtr' = initNonce
               /\ cmd' = CmdLog("add", pw, name, valid, IF valid THEN secret ELSE NoSecret,
                                file.exists, out)
    /\ mg' = NoMerge
    /\ UNCHANGED <<pc, apiVars, cacheVars>>

AddValues == {"", "2"}
AddCategories == {"w"}

Add ==
    \E pw \in Passphrases, interactive \in BOOLEAN, name \in Names \cup {""},
       value \in AddValues, generate \in BOOLEAN, category \in AddCategories :
        AddCmd(pw, interactive, name, value, generate, category)

(***************************************************************************)
(* importCmd.Run                                                           *)
(***************************************************************************)
Choices == {"l", "i", "s"}

\* backup.go:133-138: drop the first entry of that name
RECURSIVE RemoveFirst(_, _)
RemoveFirst(secrets, name) ==
    IF secrets = <<>> THEN <<>>
    ELSE IF Head(secrets).Name = name THEN Tail(secrets)
    ELSE <<Head(secrets)>> \o RemoveFirst(Tail(secrets), name)

MergeStart(cur, imp, storePassword) ==
    [active |-> TRUE, done |-> FALSE, cur |-> cur, imp |-> imp, i |-> 1,
     mergedSecrets |-> cur.Secrets, importedCount |-> 0, skippedCount |-> 0,
     overwrittenCount |-> 0, storePassword |-> storePassword,
     prompts |-> 0, choice |-> "-", answers |-> <<>>]

\* variant of MergeIter whose 'i' branch appends without removing
MergeIterKeepBoth(m, choice) ==
    LET e == m.imp[m.i]
    IN  IF ~NameExists(m.cur.Secrets, e.Name)
        THEN [m EXCEPT !.mergedSecrets = Append(@, e), !.importedCount = @ + 1,
                       !.i = @ + 1, !.choice = "-"]
        ELSE IF choice = "i"
        THEN [m EXCEPT !.mergedSecrets = Append(@, e),
                       !.importedCount = @ + 1, !.overwrittenCount = @ + 1,
                       !.i = @ + 1, !.prompts = @ + 1, !.choice = choice,
                       !.answers = Append(@, choice)]
        ELSE [m EXCEPT !.skippedCount = @ + 1,
                       !.i = @ + 1, !.prompts = @ + 1, !.choice = choice,
                       !.answers = Append(@, choice)]

\* variant of MergeIter whose conflict flag is never reset: after the first
\* conflict every later imported entry is treated as one
MergeIterStickyConflict(m, choice) ==
    LET e == m.imp[m.i]
    IN  IF ~NameExists(m.cur.Secrets, e.Name)
        THEN IF m.prompts > 0
             THEN [m EXCEPT !.i = @ + 1, !.choice = "-"]
             ELSE [m EXCEPT !.mergedSecrets = Append(@, e), !.importedCount = @ + 1,
                            !.i = @ + 1, !.choice = "-"]
        ELSE IF choice = "i"
        THEN [m EXCEPT !.mergedSecrets = Append(RemoveFirst(@, e.Name), e),
                       !.importedCount = @ + 1, !.overwrittenCount = @ + 1,
                       !.i = @ + 1, !.prompts = @ + 1, !.choice = choice,
                       !.answers = Append(@, choice)]
        ELSE [m EXCEPT !.skippedCount = @ + 1,
                       !.i = @ + 1, !.prompts = @ + 1, !.choice = choice,
                       !.answers = Append(@, choice)]

\* variant of MergeIter whose 's' branch drops the local entry of that name
MergeIterSkipDrops(m, choice) ==
    LET e == m.imp[m.i]
    IN  IF ~NameExists(m.cur.Secrets, e.Name)
        THEN [m EXCEPT !.mergedSecrets = Append(@, e), !.importedCount = @ + 1,
                       !.i = @ + 1, !.choice = "-"]
        ELSE IF choice = "i"
        THEN [m EXCEPT !.mergedSecrets = Append(RemoveFirst(@, e.Name), e),
                       !.importedCount = @ + 1, !.overwrittenCount = @ + 1,
                       !.i = @ + 1, !.prompts = @ + 1, !.choice = choice,
                       !.answers = Append(@, choice)]
        ELSE IF choice = "s"
        THEN [m EXCEPT !.mergedSecrets = RemoveFirst(@, e.Name),
                       !.skippedCount = @ + 1,
                       !.i = @ + 1, !.prompts = @ + 1, !.choice = choice,
                       !.answers = Append(@, choice)]
        ELSE [m EXCEPT !.skippedCount = @ + 1,
                       !.i = @ + 1, !.prompts = @ + 1, !.choice = choice,
                       !.answers = Append(@, choice)]

\* variant of MergeIter whose 'i' branch does not count the overwrite
MergeIterNoOverwriteCount(m, choice) ==
    LET e == m.imp[m.i]
    IN  IF ~NameExists(m.cur.Secrets, e.Name)
        THEN [m EXCEPT !.mergedSecrets = Append(@, e), !.importedCount = @ + 1,
                       !.i = @ + 1, !.choice = "-"]
        ELSE IF choice = "i"
        THEN [m EXCEPT !.mergedSecrets = Append(RemoveFirst(@, e.Name), e),
                       !.importedCount = @ + 1,
                       !.i = @ + 1, !.prompts = @ + 1, !.choice = choice,
                       !.answers = Append(@, choice)]
        ELSE [m EXCEPT !.skippedCount = @ + 1,
                       !.i = @ + 1, !.prompts = @ + 1, !.choice = choice,
                       !.answers = Append(@, choice)]

\* variant of MergeIter whose skip branch does not count the entry
MergeIterSkipUncounted(m, choice) ==
    LET e == m.imp[m.i]
    IN  IF ~NameExists(m.cur.Secrets, e.Name)
        THEN [m EXCEPT !.mergedSecrets = Append(@, e), !.importedCount = @ + 1,
                       !.i = @ + 1, !.choice = "-"]
        ELSE IF choice = "i"
        THEN [m EXCEPT !.mergedSecrets = Append(RemoveFirst(@, e.Name), e),
                       !.importedCount = @ + 1, !.overwrittenCount = @ + 1,
                       !.i = @ + 1, !.prompts = @ + 1, !.choice = choice,
                       !.answers = Append(@, choice)]
        ELSE [m EXCEPT !.i = @ + 1, !.prompts = @ + 1, !.choice = choice,
                       !.answers = Append(@, choice)]

\* backup.go:123-155: one pass of the loop over importedStore.Secrets;
\* choice is what PromptForConflictChoice returned ("-" when it was not called)
MergeIter(m, choice) ==
    LET e == m.imp[m.i]
    IN  IF ~NameExists(m.cur.Secrets, e.Name)
        THEN [m EXCEPT !.mergedSecrets = Append(@, e), !.importedCount = @ + 1,
                       !.i = @ + 1, !.choice = "-"]
        ELSE IF choice = "i"
        THEN [m EXCEPT !.mergedSecrets = Append(RemoveFirst(@, e.Name), e),
                       !.importedCount = @ + 1, !.overwrittenCount = @ + 1,
                       !.i = @ + 1, !.prompts = @ + 1, !.choice = choice,
                       !.answers = Append(@, choice)]
        ELSE [m EXCEPT !.skippedCount = @ + 1,
                       !.i = @ + 1, !.prompts = @ + 1, !.choice = choice,
                       !.answers = Append(@, choice)]

\* backup.go:157-163: store the merged list and report
\* f: the store file at that point; salts, nonces: the draws made so far
MergeFinish(m, f, salts, nonces) ==
    /\ file' = SaveStoreFile(f, m.storePassword, Store(m.cur.Version, m.mergedSecrets),
                             salts + 1, nonces + 1)
    /\ saltCtr' = IF f.exists THEN salts ELSE salts + 1
    /\ nonceCtr' = nonces + 1
    /\ mg' = [m EXCEPT !.done = TRUE]
    /\ pc' = "idle"

ImportCmd(importFile, importPassword, useStorePassword, merge, masterPassword) ==
    /\ pc = "idle"
    /\ cmd = NoCmd
    /\ \E rI \in {LoadStore(importFile, importPassword)} :
       LET storePassword == IF useStorePassword THEN importPassword ELSE masterPassword
           \* logged: the passphrase for the store, the mode, and whether the
           \* import file loaded
           log(out) == CmdLog("import", storePassword, IF merge THEN "merge" ELSE "replace",
                              LoadOk(rI), NoSecret, file.exists, out)
       IN  IF rI.panic \/ rI.err # "nil"
           THEN /\ cmd' = log(IF rI.panic THEN "panic" ELSE "import_error")
                /\ mg' = NoMerge
                /\ UNCHANGED <<file, pc, randVars>>
           ELSE IF ~merge
           THEN \* backup.go:165-194: the import file is copied over the store file
                /\ file' = importFile
                /\ cmd' = log("replaced")
                /\ mg' = NoMerge
                /\ UNCHANGED <<pc, randVars>>
           ELSE \E r0 \in {LoadStore(file, storePassword)} :
                \* backup.go:101-109: InitializeStore, then LoadStore again, when the
                \* error satisfies os.IsNotExist (none that LoadStore returns does)
                LET init == ~r0.panic /\ r0.err # "nil" /\ IsNotExist(r0.err)
                    initFile == IF init
                                THEN SaveStoreFile(file, storePassword, Store(1, <<>>),
                                                   saltCtr + 2, nonceCtr + 1)
                                ELSE file
                    initSalt == IF init
                                THEN (IF file.exists THEN saltCtr + 1 ELSE saltCtr + 2)
                                ELSE saltCtr
                    initNonce == IF init THEN nonceCtr + 1 ELSE nonceCtr
                IN  \E r \in {IF init THEN LoadStore(initFile, storePassword) ELSE r0} :
                    IF r.panic \/ r.err # "nil"
                    THEN /\ cmd' = log(IF r.panic THEN "panic" ELSE "load_error")
                         /\ mg' = NoMerge
                         /\ file' = initFile
                         /\ saltCtr' = initSalt
                         /\ nonceCtr' = initNonce
                         /\ UNCHANGED pc
                    ELSE IF rI.store.Secrets = <<>>
                    THEN /\ cmd' = log("merged")
                         /\ MergeFinish(MergeStart(r.store, rI.store.Secrets, storePassword),
                                        initFile, initSalt, initNonce)
                    ELSE /\ cmd' = log("merging")
                         /\ mg' = MergeStart(r.store, rI.store.Secrets, storePassword)
                         /\ pc' = "merge"
                         /\ file' = initFile
                         /\ saltCtr' = initSalt
                         /\ nonceCtr' = initNonce
    /\ UNCHANGED <<apiVars, cacheVars>>

Import ==
    \E importFile \in ImportFiles, importPassword \in Passphrases,
       useStorePassword \in BOOLEAN, merge \in BOOLEAN :
        \E masterPassword \in (IF merge /\ ~useStorePassword THEN Passphrases
                                ELSE {importPassword}) :
            ImportCmd(importFile, importPassword, useStorePassword, merge, masterPassword)

ImportMergeStep ==
    /\ pc = "merge"
    /\ \E choice \in (IF NameExists(mg.cur.Secrets, mg.imp[mg.i].Name) THEN Choices ELSE {"-"}) :
         LET m == MergeIter(mg, choice)
         IN  IF m.i > Len(m.imp)
             THEN /\ MergeFinish(m, file, saltCtr, nonceCtr)
                  /\ cmd' = [cmd EXCEPT !.out = "merged"]
             ELSE /\ mg' = m
                  /\ UNCHANGED <<file, pc, cmd, randVars>>
    /\ UNCHANGED <<apiVars, cacheVars>>

\* PromptForConflictChoice reads end of input and calls os.Exit(1)
ImportMergeExit ==
    /\ pc = "merge"
    /\ NameExists(mg.cur.Secrets, mg.imp[mg.i].Name)
    /\ pc' = "idle"
    /\ mg' = NoMerge
    /\ cmd' = [cmd EXCEPT !.out = "exit"]
    /\ UNCHANGED <<file, randVars, apiVars, cacheVars>>

\* add commands one after another
NextAdd == Add

SpecAdd == InitCmd /\ [][NextAdd]_vars

\* one import command on a given store file
NextImport ==
    \/ Import
    \/ ImportMergeStep
    \/ ImportMergeExit

SpecImport == InitCmd /\ [][NextImport]_vars

(***************************************************************************)
(* Package cache: the file holds base64(nonce || AES-GCM(cacheKey, nonce,  *)
(* JSON{password, expires_at}))                                            *)
(***************************************************************************)
\* the key derived from this machine's hostname, and one from another name
HostKey == [host |-> "h1"]
OtherKey == [host |-> "h2"]

CacheData(password, expiresAt) == [password |-> password, expiresAt |-> expiresAt]

\* gcm.Seal(nonce, nonce, plaintext, nil)
CacheSeal(plaintext, key, nonce) ==
    [key |-> key, nonce |-> nonce, pt |-> plaintext, flipped |-> FALSE]

\* base64.StdEncoding.EncodeToString
Base64(bytes) == [b64 |-> bytes]

CacheBlob(password, expiresAt, key, nonce) ==
    [exists |-> TRUE, data |-> Base64(CacheSeal(CacheData(password, expiresAt), key, nonce))]

\* ClearMasterPassword: Stat, then Remove when the file is there
ClearMasterPassword(f) == NoCacheFile

GetResult(password, err, expired) == [password |-> password, err |-> err, expired |-> expired]

\* variant of GetMasterPassword that does not look at expires_at
GetMasterPasswordNoExpiry(f, key, t) ==
    IF ~f.exists THEN GetResult("", "nil", FALSE)
    ELSE IF "b64" \notin DOMAIN f.data THEN GetResult("", "decode", FALSE)
    ELSE IF "short" \in DOMAIN f.data.b64 THEN GetResult("", "short", FALSE)
    ELSE IF f.data.b64.key # key \/ f.data.b64.flipped THEN GetResult("", "decrypt", FALSE)
    ELSE IF "password" \notin DOMAIN f.data.b64.pt THEN GetResult("", "unmarshal", FALSE)
    ELSE GetResult(f.data.b64.pt.password, "nil", FALSE)

\* GetMasterPassword at time t: read, decode, split, open, unmarshal, compare
GetMasterPassword(f, key, t) ==
    IF ~f.exists THEN GetResult("", "nil", FALSE)
    ELSE IF "b64" \notin DOMAIN f.data THEN GetResult("", "decode", FALSE)
    ELSE IF "short" \in DOMAIN f.data.b64 THEN GetResult("", "short", FALSE)
    ELSE IF f.data.b64.key # key \/ f.data.b64.flipped THEN GetResult("", "decrypt", FALSE)
    ELSE IF "password" \notin DOMAIN f.data.b64.pt THEN GetResult("", "unmarshal", FALSE)
    ELSE IF t > f.data.b64.pt.expiresAt THEN GetResult("", "nil", TRUE)
    ELSE GetResult(f.data.b64.pt.password, "nil", FALSE)

\* variant of SetMasterPassword that clears only for a timeout below zero
SetMasterPasswordZeroStores(f, password, timeout, t, nonce) ==
    IF timeout < 0 THEN ClearMasterPassword(f)
    ELSE CacheBlob(password, t + timeout, HostKey, nonce)

\* SetMasterPassword at time t: the cache file after the call
SetMasterPassword(f, password, timeout, t, nonce) ==
    IF timeout <= 0 THEN ClearMasterPassword(f)
    ELSE CacheBlob(password, t + timeout, HostKey, nonce)

\* cache files the program did not write: not base64, an empty or cut file,
\* bytes sealed under another hostname's key, a flipped bit, sealed bytes
\* that are no JSON, and sealed JSON without the two fields (zero time)
CorruptCaches ==
    {[exists |-> TRUE, data |-> [raw |-> TRUE]],
     [exists |-> TRUE, data |-> Base64([short |-> TRUE])],
     CacheBlob("p1", MaxTime, OtherKey, 0),
     [exists |-> TRUE,
      data |-> Base64([CacheSeal(CacheData("p1", MaxTime), HostKey, 0) EXCEPT !.flipped = TRUE])],
     [exists |-> TRUE, data |-> Base64(CacheSeal([notJson |-> TRUE], HostKey, 0))],
     CacheBlob("", 0 - 1, HostKey, 0)}

Timeouts == {0 - 1, 0, 1, 2}

Call(op, password, timeout, err) ==
    [op |-> op, password |-> password, timeout |-> timeout, err |-> err,
     at |-> now, n |-> 1 - cacheCall.n, had |-> cacheFile.exists]

procVars == <<run, sig, exited>>
storeVars ==
    <<file, copy, pc, saveVars, result, pathSalt, loaded, randVars, cmdVars, extVars>>

InitCache ==
    /\ file = NoFile
    /\ copy = NoFile
    /\ pc = "idle"
    /\ saveData = <<>>
    /\ saveOld = NoFile
    /\ savePass = ""
    /\ saveStore = NilStore
    /\ result = "none"
    /\ pathSalt = NoSalt
    /\ loaded = NotLoaded
    /\ saltCtr = 0
    /\ nonceCtr = 0
    /\ cmd = NoCmd
    /\ mg = NoMerge
    /\ CacheIdle

\* a minute passes
CacheTick ==
    /\ now < MaxTime
    /\ now' = now + 1
    /\ UNCHANGED <<cacheFile, tmpFile, cacheCall, lastSet, setCtr, procVars, storeVars>>

SetMasterPasswordCall ==
    /\ setCtr < MaxSets
    /\ \E password \in Passphrases, timeout \in Timeouts :
         /\ cacheFile' = SetMasterPassword(cacheFile, password, timeout, now, setCtr + 1)
         /\ lastSet' = IF timeout <= 0 THEN NoSet
                       ELSE [valid |-> TRUE, password |-> password, expiresAt |-> now + timeout]
         /\ cacheCall' = Call("set", password, timeout, "nil")
         /\ setCtr' = IF timeout <= 0 THEN setCtr ELSE setCtr + 1
    /\ UNCHANGED <<tmpFile, now, procVars, storeVars>>

GetMasterPasswordCall ==
    /\ \E r \in {GetMasterPassword(cacheFile, HostKey, now)} :
         /\ cacheCall' = Call("get", r.password, 0, r.err)
         /\ cacheFile' = IF r.expired THEN ClearMasterPassword(cacheFile) ELSE cacheFile
    /\ UNCHANGED <<tmpFile, now, lastSet, setCtr, procVars, storeVars>>

ClearMasterPasswordCall ==
    /\ cacheFile' = ClearMasterPassword(cacheFile)
    /\ lastSet' = NoSet
    /\ cacheCall' = Call("clear", "", 0, "nil")
    /\ UNCHANGED <<tmpFile, now, setCtr, procVars, storeVars>>

\* the file is damaged, or the hostname changed, behind the program's back
CorruptCacheFile ==
    /\ cacheFile' \in CorruptCaches
    /\ cacheFile' # cacheFile
    /\ lastSet' = NoSet
    /\ cacheCall' = Call("corrupt", "", 0, "nil")
    /\ UNCHANGED <<tmpFile, now, setCtr, procVars, storeVars>>

NextCache ==
    \/ CacheTick
    \/ SetMasterPasswordCall
    \/ GetMasterPasswordCall
    \/ ClearMasterPasswordCall
    \/ CorruptCacheFile

SpecCache == InitCache /\ [][NextCache]_vars

(***************************************************************************)
(* A command process: the main goroutine runs one command step by step,    *)
(* the goroutine started in cmd's init waits for SIGINT/SIGTERM            *)
(***************************************************************************)
\* root.go:20, in minutes
CacheTimeout == 5

\* commands that call getPassword and cacheVerifiedPassword
CachingOps == {"add", "list", "change-master"}
\* get stands for the commands that prompt and never touch the cache
\* (get, delete, update)
Ops == CachingOps \cup {"get"}

\* the main goroutine's locals when getPassword has returned
RunRec(op, at, password, fromCache, warned, out) ==
    [op |-> op, pc |-> at, password |-> password, fromCache |-> fromCache,
     warned |-> warned, loadOk |-> FALSE, store |-> NilStore, unlockAt |-> 0,
     newPassword |-> "", signalled |-> FALSE, out |-> out]

PasswordResult(password, err, warned, fromCache) ==
    [password |-> password, err |-> err, warned |-> warned, fromCache |-> fromCache]

\* variant of getPassword that hands the cache's error to the command
getPasswordFailsOnCacheError(cacheOnSuccess, r, prompted) ==
    IF ~cacheOnSuccess /\ r.err # "nil" THEN PasswordResult("", r.err, FALSE, FALSE)
    ELSE IF ~cacheOnSuccess /\ r.password # "" THEN PasswordResult(r.password, "nil", FALSE, TRUE)
    ELSE PasswordResult(prompted, "nil", FALSE, FALSE)

\* root.go:32-47; r is what cache.GetMasterPassword returned, prompted what
\* the user types when asked
getPassword(cacheOnSuccess, r, prompted) ==
    IF ~cacheOnSuccess /\ r.err # "nil" THEN PasswordResult(prompted, "nil", TRUE, FALSE)
    ELSE IF ~cacheOnSuccess /\ r.password # "" THEN PasswordResult(r.password, "nil", FALSE, TRUE)
    ELSE PasswordResult(prompted, "nil", FALSE, FALSE)

ProcStores == {Store(1, <<>>), Store(1, <<Variant("a", 1)>>)}

InitProc ==
    /\ file \in {NoFile} \cup {ExternFile("p1", s) : s \in ProcStores}
    /\ copy = NoFile
    /\ pc = "idle"
    /\ saveData = <<>>
    /\ saveOld = NoFile
    /\ savePass = ""
    /\ saveStore = NilStore
    /\ result = "none"
    /\ pathSalt = NoSalt
    /\ loaded = NotLoaded
    /\ saltCtr = 0
    /\ nonceCtr = 0
    /\ cmd = NoCmd
    /\ mg = NoMerge
    /\ cacheFile \in {NoCacheFile} \cup CorruptCaches
    /\ tmpFile = NoCacheFile
    /\ now = 0
    /\ cacheCall = NoCall
    /\ lastSet = NoSet
    /\ setCtr = 0
    /\ run = NoRun
    /\ sig = "wait"
    /\ exited = "none"
    /\ ExtIdle

Running == run.pc \notin {"none", "done"}

Finish(r, out) == [r EXCEPT !.pc = "done", !.out = out]

procStoreVars == <<copy, pc, saveVars, result, pathSalt, loaded, cmdVars, extVars>>

\* a minute passes while no command runs or one waits at a prompt
ProcTick ==
    /\ now < MaxTime
    /\ run.pc \in {"none", "done", "body"}
    /\ now' = now + 1
    /\ UNCHANGED <<file, randVars, cacheFile, tmpFile, cacheCall, lastSet, setCtr,
                   procVars, procStoreVars>>

\* the command starts and obtains the passphrase: getPassword(false) in
\* add, list and change-master, utils.PromptForPassword in get
ProcGetPassword ==
    /\ ~Running
    /\ nonceCtr < MaxSaves
    /\ setCtr < MaxSets
    /\ \E op \in Ops, prompted \in Passphrases :
       \E r \in {IF op \in CachingOps THEN GetMasterPassword(cacheFile, HostKey, now)
                 ELSE GetResult("", "nil", FALSE)} :
       \E gp \in {getPassword(op \notin CachingOps, r, prompted)} :
         /\ cacheFile' = IF r.expired THEN ClearMasterPassword(cacheFile) ELSE cacheFile
         /\ cacheCall' = IF op \in CachingOps THEN Call("get", r.password, 0, r.err)
                         ELSE cacheCall
         /\ run' = IF gp.err # "nil"
                   THEN RunRec(op, "done", "", FALSE, FALSE, "password_error")
                   ELSE RunRec(op, "load", gp.password, gp.fromCache, gp.warned, "running")
         /\ exited' = IF gp.err # "nil" THEN "normal" ELSE "running"
    /\ sig' = "wait"
    /\ UNCHANGED <<file, randVars, tmpFile, now, lastSet, setCtr, procStoreVars>>

\* store.LoadStore and the test of its error
ProcLoad ==
    /\ run.pc = "load"
    /\ \E r \in {LoadStore(file, run.password)} :
         IF r.panic
         THEN /\ run' = Finish(run, "panic")
              /\ exited' = "panic"
              /\ sig' = "wait"
              /\ UNCHANGED <<file, randVars>>
         ELSE IF r.err = "nil"
         THEN /\ run' = [run EXCEPT !.loadOk = TRUE, !.store = r.store, !.unlockAt = now,
                                    !.pc = IF run.op \in CachingOps THEN "set_tmp" ELSE "body"]
              /\ UNCHANGED <<file, randVars, sig, exited>>
         ELSE IF run.op = "add" /\ IsNotExist(r.err)
         THEN \* add.go:71-79: InitializeStore, LoadStore again, no caching
              /\ file' = SaveStoreFile(file, run.password, Store(1, <<>>),
                                       saltCtr + 2, nonceCtr + 1)
              /\ saltCtr' = IF file.exists THEN saltCtr + 1 ELSE saltCtr + 2
              /\ nonceCtr' = nonceCtr + 1
              /\ run' = [run EXCEPT !.store = Store(1, <<>>), !.pc = "body"]
              /\ UNCHANGED <<sig, exited>>
         ELSE /\ run' = Finish(run, "load_error")
              /\ exited' = "normal"
              /\ sig' = "wait"
              /\ UNCHANGED <<file, randVars>>
    /\ UNCHANGED <<cacheFile, tmpFile, now, cacheCall, lastSet, setCtr, procStoreVars>>

\* cacheVerifiedPassword, first half: SetMasterPassword builds the entry and
\* writes it to the .tmp file
ProcSetWriteTmp ==
    /\ run.pc = "set_tmp"
    /\ tmpFile' = SetMasterPassword(tmpFile, run.password, CacheTimeout, now, setCtr + 1)
    /\ setCtr' = setCtr + 1
    /\ run' = [run EXCEPT !.pc = "set_rename"]
    /\ UNCHANGED <<file, randVars, cacheFile, now, cacheCall, lastSet, sig, exited,
                   procStoreVars>>

\* second half: os.Rename(tempFile, cacheFile)
ProcSetRename ==
    /\ run.pc = "set_rename"
    /\ cacheFile' = tmpFile
    /\ tmpFile' = NoCacheFile
    /\ lastSet' = [valid |-> TRUE, password |-> run.password,
                   expiresAt |-> tmpFile.data.b64.pt.expiresAt]
    /\ cacheCall' = Call("set", run.password, CacheTimeout, "nil")
    /\ run' = [run EXCEPT !.pc = "body"]
    /\ UNCHANGED <<file, randVars, now, setCtr, sig, exited, procStoreVars>>

ChangeResult(f, cache, out, saved) == [file |-> f, cache |-> cache, out |-> out, saved |-> saved]

\* variant of ChangeMaster that leaves the cache as it is
ChangeMasterKeepsCache(f, cache, store, newPassword, confirmPassword, freshSalt, freshNonce) ==
    IF newPassword # confirmPassword THEN ChangeResult(f, cache, "mismatch", FALSE)
    ELSE ChangeResult(SaveStoreFile(f, newPassword, store, freshSalt, freshNonce),
                      cache, "changed", TRUE)

\* change-master.go:41-56: the two prompts, SaveStore, ClearMasterPassword
ChangeMaster(f, cache, store, newPassword, confirmPassword, freshSalt, freshNonce) ==
    IF newPassword # confirmPassword THEN ChangeResult(f, cache, "mismatch", FALSE)
    ELSE ChangeResult(SaveStoreFile(f, newPassword, store, freshSalt, freshNonce),
                      ClearMasterPassword(cache), "changed", TRUE)

\* the rest of the command after the store is loaded
ProcBody ==
    /\ run.pc = "body"
    /\ \/ /\ run.op \in {"list", "get"}
          /\ run' = Finish(run, "ok")
          /\ UNCHANGED <<file, randVars, cacheFile, cacheCall, lastSet>>
       \/ /\ run.op = "add"
          /\ \E name \in {"a", "b"} :
             \E out \in {AddOutcome(run.store.Secrets, FALSE, name, "2", FALSE)} :
               /\ run' = Finish(run, out)
               /\ IF out = "added"
                  THEN /\ file' = SaveStoreFile(file, run.password,
                                      Store(run.store.Version,
                                            Append(run.store.Secrets,
                                                   Secret(name, "2", "", ZeroTime))),
                                      saltCtr + 1, nonceCtr + 1)
                       /\ saltCtr' = IF file.exists THEN saltCtr ELSE saltCtr + 1
                       /\ nonceCtr' = nonceCtr + 1
                  ELSE UNCHANGED <<file, randVars>>
          /\ UNCHANGED <<cacheFile, cacheCall, lastSet>>
       \/ /\ run.op = "change-master"
          /\ \E newPassword \in Passphrases, confirmPassword \in Passphrases :
             \E c \in {ChangeMaster(file, cacheFile, run.store, newPassword, confirmPassword,
                                    saltCtr + 1, nonceCtr + 1)} :
               /\ run' = [Finish(run, c.out) EXCEPT !.newPassword = newPassword]
               /\ file' = c.file
               /\ cacheFile' = c.cache
               /\ saltCtr' = IF c.saved /\ ~file.exists THEN saltCtr + 1 ELSE saltCtr
               /\ nonceCtr' = IF c.saved THEN nonceCtr + 1 ELSE nonceCtr
               /\ lastSet' = IF c.saved THEN NoSet ELSE lastSet
               /\ cacheCall' = IF c.saved THEN Call("clear", "", 0, "nil") ELSE cacheCall
    /\ exited' = "normal"
    /\ sig' = "wait"
    /\ UNCHANGED <<tmpFile, now, setCtr, procStoreVars>>

\* root.go:97-99: SIGINT or SIGTERM reaches the process, the listener wakes
SigReceive ==
    /\ Running
    /\ sig = "wait"
    /\ sig' = "clear"
    /\ run' = [run EXCEPT !.signalled = TRUE]
    /\ UNCHANGED <<file, randVars, cacheFile, tmpFile, now, cacheCall, lastSet, setCtr,
                   exited, procStoreVars>>

\* root.go:100: cache.ClearMasterPassword() on the listener goroutine
SigClear ==
    /\ Running
    /\ sig = "clear"
    /\ cacheFile' = ClearMasterPassword(cacheFile)
    /\ sig' = "exit"
    /\ UNCHANGED <<file, randVars, tmpFile, now, cacheCall, lastSet, setCtr, run, exited,
                   procStoreVars>>

\* root.go:101: os.Exit(0) ends the process, the main goroutine with it
SigExit ==
    /\ Running
    /\ sig = "exit"
    /\ run' = Finish(run, "interrupted")
    /\ exited' = "signal"
    /\ sig' = "wait"
    /\ UNCHANGED <<file, randVars, cacheFile, tmpFile, now, cacheCall, lastSet, setCtr,
                   procStoreVars>>

NextProc ==
    \/ ProcTick
    \/ ProcGetPassword
    \/ ProcLoad
    \/ ProcSetWriteTmp
    \/ ProcSetRename
    \/ ProcBody
    \/ SigReceive
    \/ SigClear
    \/ SigExit

SpecProc == InitProc /\ [][NextProc]_vars

(***************************************************************************)
(* Package cache step by step: the call the main goroutine has under way,  *)
(* the signal listener of the same process, and a second vlxck process     *)
(***************************************************************************)
CachePath == "password.cache"

\* variant of TempFile: the blob is written to the cache file itself
TempFileInPlace(path) == path

\* part_002:104: tempFile := cacheFile + ".tmp"
TempFile(path) == path \o ".tmp"

\* a file of no bytes, what os.WriteFile leaves between opening with O_TRUNC
\* and writing: it decodes to a ciphertext shorter than a nonce
EmptyCacheFile == [exists |-> TRUE, data |-> Base64([short |-> TRUE])]

Files(cache, tmp) == [cache |-> cache, tmp |-> tmp]

\* the two files after content has been put at path (NoCacheFile: removed)
WriteAt(path, content) ==
    IF path = CachePath THEN Files(content, tmpFile) ELSE Files(cacheFile, content)

\* os.Rename(path, cacheFile)
RenameToCache(path) ==
    IF path = CachePath THEN Files(cacheFile, tmpFile) ELSE Files(tmpFile, NoCacheFile)

OpRec(op, at, password, timeout, data, old) ==
    [op |-> op, pc |-> at, password |-> password, timeout |-> timeout, data |-> data,
     old |-> old]

stepFrame ==
    <<file, copy, pc, saveVars, result, pathSalt, loaded, randVars, cmdVars, run>>

\* a minute passes between two calls
StepTick ==
    /\ now < MaxTime
    /\ cacheOp.pc = "idle"
    /\ sig = "wait"
    /\ now' = now + 1
    /\ UNCHANGED <<cacheFile, tmpFile, cacheCall, lastSet, setCtr, sig, exited, fault,
                   mutex, cacheOp, pg, stepFrame>>

\* GetMasterPassword: cacheKeyMutex.RLock()
GetLock ==
    /\ cacheOp.pc = "idle"
    /\ cacheOp' = OpRec("get", "locked", "", 0, NoCacheFile, NoCacheFile)
    /\ mutex' = mutex + 1
    /\ UNCHANGED <<cacheFile, tmpFile, now, cacheCall, lastSet, setCtr, sig, exited,
                   fault, pg, stepFrame>>

\* os.ReadFile(cacheFile)
GetReadFile ==
    /\ cacheOp.pc = "locked"
    /\ cacheOp' = [cacheOp EXCEPT !.pc = "read", !.data = cacheFile]
    /\ UNCHANGED <<cacheFile, tmpFile, now, cacheCall, lastSet, setCtr, sig, exited,
                   fault, mutex, pg, stepFrame>>

\* decode, open, unmarshal, compare with time.Now(), return; the deferred
\* RUnlock runs
GetReturn ==
    /\ cacheOp.pc = "read"
    /\ \E r \in {GetMasterPassword(cacheOp.data, HostKey, now)} :
         /\ cacheFile' = IF r.expired THEN ClearMasterPassword(cacheFile) ELSE cacheFile
         /\ cacheCall' = Call("get", r.password, 0, r.err)
         /\ lastSet' = IF r.expired THEN NoSet ELSE lastSet
    /\ mutex' = mutex - 1
    /\ cacheOp' = NoCacheOp
    /\ UNCHANGED <<tmpFile, now, setCtr, sig, exited, fault, pg, stepFrame>>

\* SetMasterPassword up to gcm.Seal; with timeout <= 0 the whole call
SetBegin ==
    /\ cacheOp.pc = "idle"
    /\ setCtr < MaxSets
    /\ \E password \in Passphrases, timeout \in Timeouts :
         IF timeout <= 0
         THEN /\ cacheFile' = SetMasterPassword(cacheFile, password, timeout, now, setCtr + 1)
              /\ cacheCall' = Call("set", password, timeout, "nil")
              /\ lastSet' = NoSet
              /\ UNCHANGED <<cacheOp, setCtr>>
         ELSE /\ cacheOp' = OpRec("set", "open", password, timeout,
                                  SetMasterPassword(cacheFile, password, timeout, now,
                                                    setCtr + 1),
                                  cacheFile)
              /\ setCtr' = setCtr + 1
              /\ UNCHANGED <<cacheFile, cacheCall, lastSet>>
    /\ UNCHANGED <<tmpFile, now, sig, exited, fault, mutex, pg, stepFrame>>

\* os.WriteFile(tempFile, ...): the file is opened with O_CREATE|O_TRUNC
SetOpenTemp ==
    /\ cacheOp.pc = "open"
    /\ \E w \in {WriteAt(TempFile(CachePath), EmptyCacheFile)} :
         /\ cacheFile' = w.cache
         /\ tmpFile' = w.tmp
    /\ cacheOp' = [cacheOp EXCEPT !.pc = "write"]
    /\ UNCHANGED <<now, cacheCall, lastSet, setCtr, sig, exited, fault, mutex, pg,
                   stepFrame>>

\* os.WriteFile(tempFile, ...): the blob is written
SetWriteTemp ==
    /\ cacheOp.pc = "write"
    /\ \E w \in {WriteAt(TempFile(CachePath), cacheOp.data)} :
         /\ cacheFile' = w.cache
         /\ tmpFile' = w.tmp
    /\ cacheOp' = [cacheOp EXCEPT !.pc = "rename"]
    /\ UNCHANGED <<now, cacheCall, lastSet, setCtr, sig, exited, fault, mutex, pg,
                   stepFrame>>

\* os.WriteFile fails: "failed to write cache file"
SetWriteFails ==
    /\ cacheOp.pc = "write"
    /\ cacheCall' = Call("set", cacheOp.password, cacheOp.timeout, "write")
    /\ cacheOp' = NoCacheOp
    /\ UNCHANGED <<cacheFile, tmpFile, now, lastSet, setCtr, sig, exited, fault, mutex,
                   pg, stepFrame>>

\* os.Rename(tempFile, cacheFile) succeeds
SetRename ==
    /\ cacheOp.pc = "rename"
    /\ \E w \in {RenameToCache(TempFile(CachePath))} :
         /\ cacheFile' = w.cache
         /\ tmpFile' = w.tmp
    /\ cacheCall' = Call("set", cacheOp.password, cacheOp.timeout, "nil")
    /\ lastSet' = [valid |-> TRUE, password |-> cacheOp.password,
                   expiresAt |-> cacheOp.data.data.b64.pt.expiresAt]
    /\ cacheOp' = NoCacheOp
    /\ UNCHANGED <<now, setCtr, sig, exited, fault, mutex, pg, stepFrame>>

\* os.Rename fails: os.Remove(tempFile), "failed to update cache file"
SetRenameFails ==
    /\ cacheOp.pc = "rename"
    /\ \E w \in {WriteAt(TempFile(CachePath), NoCacheFile)} :
         /\ cacheFile' = w.cache
         /\ tmpFile' = w.tmp
    /\ cacheCall' = Call("set", cacheOp.password, cacheOp.timeout, "rename")
    /\ cacheOp' = NoCacheOp
    /\ UNCHANGED <<now, lastSet, setCtr, sig, exited, fault, mutex, pg, stepFrame>>

\* root.go:97-99: a signal arrives, the listener goroutine wakes
ListenerWake ==
    /\ sig = "wait"
    /\ sig' = "clear"
    /\ UNCHANGED <<cacheFile, tmpFile, now, cacheCall, lastSet, setCtr, exited, fault,
                   mutex, cacheOp, pg, stepFrame>>

\* root.go:100: cache.ClearMasterPassword() on the listener goroutine; the
\* function takes no lock
ListenerClear ==
    /\ sig = "clear"
    /\ cacheFile' = ClearMasterPassword(cacheFile)
    /\ lastSet' = NoSet
    /\ sig' = "exit"
    /\ UNCHANGED <<tmpFile, now, cacheCall, setCtr, exited, fault, mutex, cacheOp, pg,
                   stepFrame>>

\* root.go:101: os.Exit(0); the next process starts with its own mutex
ListenerExit ==
    /\ sig = "exit"
    /\ sig' = "wait"
    /\ cacheOp' = NoCacheOp
    /\ mutex' = 0
    /\ UNCHANGED <<cacheFile, tmpFile, now, cacheCall, lastSet, setCtr, exited, fault, pg,
                   stepFrame>>

\* the process is killed inside a cache call
Kill ==
    /\ cacheOp.pc # "idle"
    /\ sig' = "wait"
    /\ cacheOp' = NoCacheOp
    /\ mutex' = 0
    /\ UNCHANGED <<cacheFile, tmpFile, now, cacheCall, lastSet, setCtr, exited, fault, pg,
                   stepFrame>>

\* GetMasterPassword in a second vlxck process of the same user
PeerGet ==
    /\ \E r \in {GetMasterPassword(cacheFile, HostKey, now)} :
         /\ cacheCall' = Call("peer_get", r.password, 0, r.err)
         /\ cacheFile' = IF r.expired THEN ClearMasterPassword(cacheFile) ELSE cacheFile
         /\ lastSet' = IF r.expired THEN NoSet ELSE lastSet
    /\ UNCHANGED <<tmpFile, now, setCtr, sig, exited, fault, mutex, cacheOp, pg,
                   stepFrame>>

NextSteps ==
    \/ StepTick
    \/ GetLock
    \/ GetReadFile
    \/ GetReturn
    \/ SetBegin
    \/ SetOpenTemp
    \/ SetWriteTemp
    \/ SetWriteFails
    \/ SetRename
    \/ SetRenameFails
    \/ ListenerWake
    \/ ListenerClear
    \/ ListenerExit
    \/ Kill
    \/ PeerGet

SpecSteps == InitCache /\ [][NextSteps]_vars

(***************************************************************************)
(* updateCmd.Run with updateInteractive / updateNonInteractive             *)
(***************************************************************************)
\* the first entry of that name: both loops stop at the first match
FirstIndex(secrets, name) ==
    CHOOSE i \in 1..Len(secrets) :
        secrets[i].Name = name /\ \A j \in 1..(i - 1) : secrets[j].Name # name

UpdateActions == {"value", "category", "both", "cancel"}

\* how the command ends for a loaded store and the inputs
UpdateOutcome(secrets, interactive, name, action, value, generate) ==
    IF interactive
    THEN IF secrets = <<>> THEN "no_secrets"
         ELSE IF ~NameExists(secrets, name) THEN "prompt_failed"
         ELSE IF action = "cancel" THEN "cancelled"
         ELSE IF action \in {"value", "both"} /\ value = "" /\ ~generate THEN "prompt_failed"
         ELSE "updated"
    ELSE IF NameExists(secrets, name) THEN "updated" ELSE "not_found"

\* the entry after the assignments to secret.Value and secret.Category
UpdatedSecret(s, interactive, action, value, generate, category) ==
    IF interactive
    THEN [s EXCEPT !.Value = IF action \in {"value", "both"}
                              THEN (IF generate THEN GeneratedValue ELSE value) ELSE @,
                   !.Category = IF action \in {"category", "both"} THEN category ELSE @]
    ELSE [s EXCEPT !.Value = IF value # "" THEN value
                              ELSE IF generate THEN GeneratedValue ELSE @,
                   !.Category = IF category # "-" THEN category ELSE @]

\* r: what store.LoadStore(filePath, password) returned to updateCmd.Run
UpdateCmd(pw, r, interactive, name, action, value, generate, category) ==
    /\ pc = "idle"
    /\ nonceCtr < MaxSaves
    /\ LET out == IF r.panic THEN "panic"
                  ELSE IF r.err # "nil" THEN "load_error"
                  ELSE UpdateOutcome(r.store.Secrets, interactive, name, action, value,
                                     generate)
       IN  IF out = "updated"
           THEN \E i \in {FirstIndex(r.store.Secrets, name)} :
                \E s \in {UpdatedSecret(r.store.Secrets[i], interactive, action, value,
                                        generate, category)} :
                  /\ file' = SaveStoreFile(file, pw,
                                 Store(r.store.Version, [r.store.Secrets EXCEPT ![i] = s]),
                                 saltCtr + 1, nonceCtr + 1)
                  /\ nonceCtr' = nonceCtr + 1
                  /\ cmd' = CmdLog("update", pw, name, TRUE, s, file.exists, out)
                  /\ UNCHANGED saltCtr
           ELSE /\ cmd' = CmdLog("update", pw, name, FALSE, NoSecret, file.exists, out)
                /\ UNCHANGED <<file, randVars>>
    /\ mg' = NoMerge
    /\ UNCHANGED <<pc, apiVars, cacheVars>>

UpdateNames == {"a", "b"}
UpdateValues == {"", "3"}
UpdateCategories == {"-", "x"}

\* update commands given the passphrase of the store file
Update ==
    \E pw \in {"p1"} :
    \E r \in {LoadStore(file, pw)} :
    \E interactive \in BOOLEAN, name \in UpdateNames, value \in UpdateValues,
       generate \in BOOLEAN, category \in UpdateCategories :
        \E action \in (IF interactive THEN UpdateActions ELSE {"both"}) :
            UpdateCmd(pw, r, interactive, name, action, value, generate, category)

\* add commands with a name and a value, given the passphrase of the store file
AddEntry ==
    \E interactive \in BOOLEAN, name \in UpdateNames :
        AddCmd("p1", interactive, name, "2", FALSE, "w")

\* add and update commands one after another
NextUpdate ==
    \/ AddEntry
    \/ Update

\* a store file that is empty or holds one entry with a creation time
UpdateFiles ==
    {ExternFile("p1", Store(1, <<>>)), ExternFile("p1", Store(1, <<Variant("a", 2)>>))}

InitUpdate ==
    /\ file \in UpdateFiles
    /\ copy = NoFile
    /\ pc = "idle"
    /\ saveData = <<>>
    /\ saveOld = NoFile
    /\ savePass = ""
    /\ saveStore = NilStore
    /\ result = "none"
    /\ pathSalt = NoSalt
    /\ loaded = NotLoaded
    /\ saltCtr = 0
    /\ nonceCtr = 0
    /\ cmd = NoCmd
    /\ mg = NoMerge
    /\ CacheIdle

SpecUpdate == InitUpdate /\ [][NextUpdate]_vars

(***************************************************************************)
(* store.SaveStore and store.InitializeStore while a system call fails     *)
(***************************************************************************)
\* the calls of SaveStore that can fail: rand.Read of the salt,
\* os.ReadFile of the existing file, crypto.Encrypt, os.MkdirAll, and
\* os.WriteFile at its open or at its write
FaultSteps == {"none", "rand", "read", "encrypt", "mkdir", "open", "write"}

SaveResult(f, err, panic) == [file |-> f, err |-> err, panic |-> panic]

\* SaveStore(path, password, store) when the call named by step fails; err
\* names the call whose error is returned
SaveStoreUnder(f, password, store, step, freshSalt, freshNonce) ==
    IF step = "rand" /\ ~f.exists THEN SaveResult(f, "rand", FALSE)
    ELSE IF step = "read" /\ f.exists
         THEN SaveResult(f, "nil", TRUE)   \* data is nil, data[:16] is out of range
    ELSE IF step = "encrypt" THEN SaveResult(f, "encrypt", FALSE)
    ELSE IF step = "mkdir" /\ ~f.exists
         THEN SaveResult(f, "open", FALSE)  \* MkdirAll's error is dropped, WriteFile fails
    ELSE IF step = "open" THEN SaveResult(f, "open", FALSE)
    ELSE IF step = "write" THEN SaveResult(FileOf(<<>>), "write", FALSE)
    ELSE SaveResult(SaveStoreFile(f, password, store, freshSalt, freshNonce), "nil", FALSE)

\* does the call named by step fail at all on this path
Fails(f, step) ==
    /\ step # "none"
    /\ step = "rand" => ~f.exists
    /\ step = "read" => f.exists
    /\ step = "mkdir" => ~f.exists

\* drawn: the salts the caller has drawn from crypto/rand before the call
SaveStoreFaulty(password, store, drawn) ==
    /\ pc = "idle"
    /\ nonceCtr < MaxSaves
    /\ \E step \in FaultSteps :
       \E o \in {SaveStoreUnder(file, password, store, step, saltCtr + drawn + 1,
                                nonceCtr + 1)} :
         /\ file' = o.file
         /\ fault' = [step |-> IF Fails(file, step) THEN step ELSE "none", err |-> o.err]
         /\ result' = IF o.panic THEN "panic" ELSE IF o.err = "nil" THEN "ok" ELSE "error"
         /\ saveData' = SaveData(file, password, store, saltCtr + drawn + 1, nonceCtr + 1)
         /\ saltCtr' = IF file.exists THEN saltCtr + drawn ELSE saltCtr + drawn + 1
         /\ nonceCtr' = nonceCtr + 1
    /\ saveOld' = file
    /\ savePass' = password
    /\ saveStore' = store
    /\ UNCHANGED <<copy, pc, pathSalt, loaded, cmdVars, cacheFile, tmpFile, now, cacheCall,
                   lastSet, setCtr, run, sig, exited, mutex, cacheOp, pg>>

SaveStoreFault == \E p \in Passphrases, s \in ApiStores : SaveStoreFaulty(p, s, 0)

InitializeStoreFault == \E p \in Passphrases : SaveStoreFaulty(p, Store(1, <<>>), 1)

\* somebody removes the store file
RemoveStoreFile ==
    /\ pc = "idle"
    /\ file.exists
    /\ file' = NoFile
    /\ fault' = NoFault
    /\ result' = "none"
    /\ UNCHANGED <<copy, pc, saveVars, pathSalt, loaded, randVars, cmdVars, cacheFile,
                   tmpFile, now, cacheCall, lastSet, setCtr, run, sig, exited, mutex,
                   cacheOp, pg>>

NextFault ==
    \/ SaveStoreFault
    \/ InitializeStoreFault
    \/ RemoveStoreFile

SpecFault == Init /\ [][NextFault]_vars

(***************************************************************************)
(* Commands one after another within the cache timeout, none interrupted,  *)
(* import among them                                                       *)
(***************************************************************************)
\* import files: one entry, sealed under either passphrase
ProcImports == {ExternFile(p, Store(1, <<Variant("b", 2)>>)) : p \in Passphrases}

\* importCmd.Run as a command of the process: it prompts for its passphrases
\* and never calls into package cache; choice answers a conflict prompt
ProcImport ==
    /\ ~Running
    /\ nonceCtr < MaxSaves
    /\ \E importFile \in ProcImports, importPassword \in Passphrases :
       \E rI \in {LoadStore(importFile, importPassword)} :
         IF rI.panic \/ rI.err # "nil"
         THEN /\ run' = RunRec("import", "done", importPassword, FALSE, FALSE, "import_error")
              /\ UNCHANGED <<file, randVars>>
         ELSE \/ \* backup.go:165-194: the import file is copied over the store file
                 /\ file' = importFile
                 /\ run' = RunRec("import", "done", importPassword, FALSE, FALSE, "replaced")
                 /\ UNCHANGED randVars
              \/ \* backup.go:95-163: --merge
                 \E storePassword \in Passphrases :
                 \E r0 \in {LoadStore(file, storePassword)} :
                   \* backup.go:99-115: no error of LoadStore satisfies os.IsNotExist
                   IF r0.panic \/ r0.err # "nil"
                   THEN /\ ~IsNotExist(r0.err)
                        /\ run' = RunRec("import", "done", storePassword, FALSE, FALSE,
                                         "load_error")
                        /\ UNCHANGED <<file, randVars>>
                   ELSE \E choice \in (IF NameExists(r0.store.Secrets,
                                                      rI.store.Secrets[1].Name)
                                        THEN Choices ELSE {"-"}) :
                        \E m \in {MergeIter(MergeStart(r0.store, rI.store.Secrets,
                                                       storePassword), choice)} :
                          /\ file' = SaveStoreFile(file, storePassword,
                                                   Store(m.cur.Version, m.mergedSecrets),
                                                   saltCtr + 1, nonceCtr + 1)
                          /\ nonceCtr' = nonceCtr + 1
                          /\ run' = RunRec("import", "done", storePassword, FALSE, FALSE,
                                           "merged")
                          /\ UNCHANGED saltCtr
    /\ exited' = "normal"
    /\ sig' = "wait"
    /\ UNCHANGED <<cacheFile, tmpFile, now, cacheCall, lastSet, setCtr, procStoreVars>>

NextKeep ==
    \/ ProcGetPassword
    \/ ProcLoad
    \/ ProcSetWriteTmp
    \/ ProcSetRename
    \/ ProcBody
    \/ ProcImport

SpecKeep == InitProc /\ [][NextKeep]_vars

(***************************************************************************)
(* listCmd: the page loop over the filtered secrets, one step per display  *)
(* and per scanner.Scan()                                                  *)
(***************************************************************************)
\* part_008:117
SecretsPerPage == 10

\* lines typed on stdin, as the characters before the newline
Lines == {<<"n">>, <<"p">>, <<"q">>, <<"N">>, <<" ", "Q", " ">>, <<"x">>}

RECURSIVE TrimLeft(_)
TrimLeft(s) == IF s # <<>> /\ Head(s) = " " THEN TrimLeft(Tail(s)) ELSE s

RECURSIVE TrimRight(_)
TrimRight(s) ==
    IF s # <<>> /\ s[Len(s)] = " " THEN TrimRight(SubSeq(s, 1, Len(s) - 1)) ELSE s

\* strings.TrimSpace
TrimSpace(s) == TrimRight(TrimLeft(s))

LowerOf(c) == CASE c = "N" -> "n" [] c = "P" -> "p" [] c = "Q" -> "q" [] OTHER -> c

\* strings.ToLower
ToLower(s) == [i \in 1..Len(s) |-> LowerOf(s[i])]

\* part_008:190
TotalPages(n) == (n + SecretsPerPage - 1) \div SecretsPerPage

Pager(at, n, currentPage, totalPages, stdin, eof, last, displays, out) ==
    [pc |-> at, n |-> n, currentPage |-> currentPage, totalPages |-> totalPages,
     stdin |-> stdin, eof |-> eof, last |-> last, displays |-> displays, out |-> out]

\* part_008:202-215: the switch on the line read
Switch(p, input) ==
    IF input = <<"n">>
    THEN [p EXCEPT !.currentPage = IF p.currentPage < p.totalPages - 1
                                   THEN p.currentPage + 1 ELSE p.currentPage,
                   !.pc = "display"]
    ELSE IF input = <<"p">>
    THEN [p EXCEPT !.currentPage = IF p.currentPage > 0 THEN p.currentPage - 1
                                   ELSE p.currentPage,
                   !.pc = "display"]
    ELSE IF input = <<"q">> THEN [p EXCEPT !.pc = "returned", !.out = "quit"]
    ELSE [p EXCEPT !.pc = "display", !.out = "invalid"]

listFrame ==
    <<file, copy, pc, saveVars, result, pathSalt, loaded, randVars, cmdVars, cacheFile,
      tmpFile, now, cacheCall, lastSet, setCtr, run, sig, exited, fault, mutex, cacheOp>>

\* part_008:178-191: n secrets pass the category filter, stdin holds the
\* lines the user will type before closing it
ListStart ==
    /\ pg.pc = "none"
    /\ \E n \in 0..MaxListed, stdin \in SeqsUpTo(Lines, MaxInput) :
         pg' = IF n = 0
               THEN Pager("returned", 0, 0, 0, stdin, FALSE, <<>>, 0, "no_secrets")
               ELSE Pager("display", n, 0, TotalPages(n), stdin, FALSE, <<>>, 0, "running")
    /\ UNCHANGED listFrame

\* part_008:195-198 and 217-219: displaySecretsPage, then the prompt when
\* there is more than one page and the break when there is one
ListDisplay ==
    /\ pg.pc = "display"
    /\ pg.displays < MaxDisplays
    /\ pg' = IF pg.totalPages > 1
             THEN [pg EXCEPT !.displays = pg.displays + 1, !.pc = "prompt"]
             ELSE [pg EXCEPT !.displays = pg.displays + 1, !.pc = "returned", !.out = "shown"]
    /\ UNCHANGED listFrame

\* part_008:200-215: scanner.Scan() returns a line
ListScanLine ==
    /\ pg.pc = "prompt"
    /\ pg.stdin # <<>>
    /\ \E input \in {ToLower(TrimSpace(Head(pg.stdin)))} :
         pg' = Switch([pg EXCEPT !.stdin = Tail(pg.stdin), !.last = input, !.out = "running"],
                      input)
    /\ UNCHANGED listFrame

\* part_008:200, 216: scanner.Scan() returns false at the end of stdin, the
\* if has no else and the for statement starts over
ListScanEnd ==
    /\ pg.pc = "prompt"
    /\ pg.stdin = <<>>
    /\ pg' = [pg EXCEPT !.eof = TRUE, !.pc = "display"]
    /\ UNCHANGED listFrame

NextList ==
    \/ ListStart
    \/ ListDisplay
    \/ ListScanLine
    \/ ListScanEnd

SpecList == InitCache /\ [][NextList]_vars

(***************************************************************************)
(* Properties of the store engine (checked under Spec)                     *)
(***************************************************************************)
Saved == result = "ok" /\ pc \in {"idle", "loaded"}

Failed(r) == ~r.hasStore /\ ~r.panic /\ r.err # "nil"

FileSalt(f) == SubSeq(f.data, 1, SaltLen)
FileNonce(f) == SubSeq(f.data, SaltLen + 1, HeaderLen)
FileCiphertext(f) == SubSeq(f.data, HeaderLen + 1, Len(f.data))

\* C1: while SaveStore runs, and after a crash inside it, the store file
\* holds either the complete previous content or the complete new
\* salt||nonce||ciphertext, never an empty or partly written content.
C1_SaveAtomic ==
    (pc \in {"save_open", "save_write"} \/ result = "crashed")
        => file \in {saveOld, FileOf(saveData)}

C3_AuthFailure ==
    Saved =>
        /\ \A p \in Passphrases \ {savePass} : Failed(LoadStore(file, p))
        /\ \A i \in (HeaderLen + 1)..Len(file.data) :
               /\ Failed(LoadStore(FlipBit(file, i), savePass))
               /\ \A p \in Passphrases \ {savePass} :
                      LoadStore(FlipBit(file, i), savePass).err = LoadStore(file, p).err
        /\ (loaded.called /\ (loaded.of = "copy" \/ loaded.pass # savePass))
               => (Failed(loaded.r) /\ loaded.r.err = AuthError)

C3_Witness ==
    /\ Saved /\ pc = "loaded" /\ loaded.of = "copy" /\ loaded.pass = savePass
    /\ Len(saveStore.Secrets) > 0
    /\ loaded.r.err = AuthError

\* C4: LoadStore on a path with no file, and on a zero-byte file, returns a
\* fresh empty store (version 1, no entries) and no error.
C4_MissingIsEmptyStore ==
    (pc = "loaded" /\ loaded.of = "store" /\ (~file.exists \/ Len(file.data) = 0))
        => loaded.r = LoadResult(TRUE, Store(1, <<>>), "nil", FALSE)

\* C6: LoadStore on a non-empty file shorter than 28 bytes returns an error
\* to its caller: it does not abort the process and returns no store.
C6_ShortFileIsError ==
    (pc = "loaded" /\ loaded.of = "store" /\ file.exists
        /\ Len(file.data) > 0 /\ Len(file.data) < HeaderLen)
        => Failed(loaded.r)

\* C7: over successive successful SaveStore calls on one path the first 16
\* bytes stay those of the file the first call wrote; a save over an
\* existing file reuses its salt and only a save to a path with no file
\* uses a newly drawn one; saving the same store with the same passphrase
\* again changes the nonce and the ciphertext.
C7_SaltStable ==
    Saved =>
        /\ pathSalt # NoSalt => FileSalt(file) = pathSalt
        /\ saveOld.exists => FileSalt(file) = SliceTo(saveOld.data, SaltLen)
        /\ ~saveOld.exists => FileSalt(file) = SaltBytes(saltCtr)
        /\ LoadStore(saveOld, savePass) = LoadResult(TRUE, saveStore, "nil", FALSE)
               => /\ FileNonce(file) # FileNonce(saveOld)
                  /\ FileCiphertext(file) # FileCiphertext(saveOld)

C7_Witness ==
    /\ Saved
    /\ pathSalt # NoSalt
    /\ LoadStore(saveOld, savePass) = LoadResult(TRUE, saveStore, "nil", FALSE)
    /\ FileSalt(file) = FileSalt(saveOld)

(***************************************************************************)
(* Properties of the add command (checked under SpecAdd)                   *)
(***************************************************************************)
StoreNamesDistinct(f) ==
    \A p \in Passphrases :
        LoadOk(LoadStore(f, p)) => DistinctNames(LoadStore(f, p).store.Secrets)

\* C5: when add runs with a valid name and value while no store file
\* exists, the store is created: afterwards the file exists and loads under
\* the entered passphrase with exactly the added secret in it.
C5_LazyCreate ==
    (cmd.op = "add" /\ ~cmd.hadFile /\ cmd.valid)
        => /\ file.exists
           /\ LoadOk(LoadStore(file, cmd.pw))
           /\ LoadStore(file, cmd.pw).store.Secrets = <<cmd.secret>>

\* C8: an add whose name is already in the loaded store is rejected before
\* any encryption or save: no nonce is drawn and the store file keeps its
\* bytes; and an add never makes two entries of the store share a name.
C8_AddStep ==
    cmd'.op = "add" =>
        /\ \A r \in {LoadStore(file, cmd'.pw)} :
               (LoadOk(r) /\ cmd'.name \in NamesOf(r.store.Secrets))
                   => (file' = file /\ nonceCtr' = nonceCtr /\ cmd'.out # "added")
        /\ StoreNamesDistinct(file) => StoreNamesDistinct(file')

C8_AddRejectsDuplicate == [][C8_AddStep]_vars

C8_Witness ==
    /\ cmd.op = "add" /\ cmd.out = "exists" /\ cmd.valid
    /\ LoadOk(LoadStore(file, cmd.pw))
    /\ cmd.name \in NamesOf(LoadStore(file, cmd.pw).store.Secrets)

(***************************************************************************)
(* Properties of import --merge (checked under SpecImport)                 *)
(***************************************************************************)
WithNames(secrets, names) ==
    LET Test(e) == e.Name \in names IN SelectSeq(secrets, Test)

WithoutNames(secrets, names) ==
    LET Test(e) == e.Name \notin names IN SelectSeq(secrets, Test)

RangeOf(secrets) == {secrets[j] : j \in 1..Len(secrets)}

\* C9: the merged list starts as the local entries in their order; an
\* imported entry whose name matches no local entry is appended at the end,
\* in import order, without a question to the resolver, and counts as
\* imported; a local entry whose name matches no imported entry stays as it is.
C9_MergeKeepsUnique ==
    mg.active =>
        LET local == mg.cur.Secrets
            seen == SubSeq(mg.imp, 1, mg.i - 1)
            kept == Len(mg.mergedSecrets) - mg.importedCount
        IN  /\ mg.i = 1 => mg.mergedSecrets = local
            /\ WithoutNames(mg.mergedSecrets, NamesOf(local))
                   = WithoutNames(seen, NamesOf(local))
            /\ WithoutNames(mg.mergedSecrets, NamesOf(mg.imp))
                   = WithoutNames(local, NamesOf(mg.imp))
            /\ RangeOf(mg.mergedSecrets) \subseteq RangeOf(local) \cup RangeOf(seen)
            /\ kept <= Len(local)
            /\ \A j \in 1..kept : mg.mergedSecrets[j] \in RangeOf(local)
            /\ mg.importedCount
                   = Len(WithoutNames(seen, NamesOf(local))) + mg.overwrittenCount
            /\ mg.prompts = Len(WithNames(seen, NamesOf(local)))
            /\ mg.done => /\ LoadOk(LoadStore(file, mg.storePassword))
                          /\ LoadStore(file, mg.storePassword).store.Secrets
                                 = mg.mergedSecrets

C9_Witness ==
    /\ mg.active /\ mg.done
    /\ WithoutNames(mg.imp, NamesOf(mg.cur.Secrets)) # <<>>
    /\ WithoutNames(mg.cur.Secrets, NamesOf(mg.imp)) # <<>>
    /\ mg.prompts > 0
    /\ mg.imp[Len(mg.imp)].Name \notin NamesOf(mg.cur.Secrets)

\* C10: when a conflict is answered 'i', the entry of that name leaves the
\* merged list and the imported entry is appended at its end, so the list
\* holds one entry of that name, the imported one with its value, category
\* and created_at; the imported and the overwritten count each grow by one.
C10_Step ==
    (pc = "merge" /\ mg'.active /\ mg'.i = mg.i + 1 /\ mg'.choice = "i") =>
        LET e == mg.imp[mg.i]
            old == mg.mergedSecrets
            new == mg'.mergedSecrets
        IN  /\ Len(new) = Len(old)
            /\ new[Len(new)] = e
            /\ Cardinality({j \in 1..Len(new) : new[j].Name = e.Name}) = 1
            /\ WithoutNames(new, {e.Name}) = WithoutNames(old, {e.Name})
            /\ mg'.importedCount = mg.importedCount + 1
            /\ mg'.overwrittenCount = mg.overwrittenCount + 1
            /\ mg'.skippedCount = mg.skippedCount
            /\ mg'.done => WithNames(LoadStore(file', mg.storePassword).store.Secrets, {e.Name})
                               = <<e>>

C10_UseImported == [][C10_Step]_vars

C10_Witness ==
    /\ mg.active /\ mg.done /\ mg.choice = "i"
    /\ mg.overwrittenCount = 1
    /\ Len(mg.cur.Secrets) = 2

(***************************************************************************)
(* Merge: skip and keep-local, the reference algorithm, name uniqueness    *)
(***************************************************************************)
\* the fields of the loop's state that the saved store and the report show
MergeOutcome(m) ==
    <<m.mergedSecrets, m.importedCount, m.overwrittenCount, m.skippedCount, m.i>>

\* C11: when a conflict is answered 'l' or 's', the merged list is left as
\* it is (the entry of that name stays, the imported one is not added), only
\* the skipped count grows, and either answer leaves the loop in the same
\* state, so the merged entries do not depend on which of the two was given.
C11_Step ==
    (pc = "merge" /\ mg'.active /\ mg'.i = mg.i + 1 /\ mg'.choice \in {"l", "s"}) =>
        LET e == mg.imp[mg.i]
        IN  /\ mg'.mergedSecrets = mg.mergedSecrets
            /\ e.Name \in NamesOf(mg'.mergedSecrets)
            /\ (e.Name \notin NamesOf(SubSeq(mg.imp, 1, mg.i - 1)) =>
                   WithNames(mg'.mergedSecrets, {e.Name})
                       = WithNames(mg.cur.Secrets, {e.Name}))
            /\ mg'.skippedCount = mg.skippedCount + 1
            /\ mg'.importedCount = mg.importedCount
            /\ mg'.overwrittenCount = mg.overwrittenCount
            /\ MergeOutcome(MergeIter(mg, "l")) = MergeOutcome(MergeIter(mg, "s"))
            /\ MergeOutcome(mg') = MergeOutcome(MergeIter(mg, "l"))
            /\ mg'.done => LoadStore(file', mg.storePassword).store.Secrets
                               = mg.mergedSecrets

C12_SkipDropsBoth ==
    (mg.active /\ mg.done /\ mg.choice = "s") =>
        mg.imp[Len(mg.imp)].Name
            \notin NamesOf(LoadStore(file, mg.storePassword).store.Secrets)

\* the merge of spec section 4.5, answers being what resolve returns at each
\* match in turn: the result starts as local's entries; an imported entry
\* with no same-named local entry is appended; on a match UseImported removes
\* the result's entry of that name and appends the imported one, KeepLocal
\* and Skip leave the result as it is
RECURSIVE RefMerge(_, _, _, _)
RefMerge(local, imported, answers, acc) ==
    IF imported = <<>> THEN acc
    ELSE LET e == Head(imported)
             match == \E j \in 1..Len(local) : local[j].Name = e.Name
             first == CHOOSE j \in 1..Len(acc.entries) :
                          /\ acc.entries[j].Name = e.Name
                          /\ \A k \in 1..(j - 1) : acc.entries[k].Name # e.Name
         IN  IF ~match
             THEN RefMerge(local, Tail(imported), answers,
                           [acc EXCEPT !.entries = Append(@, e), !.imported = @ + 1])
             ELSE IF Head(answers) = "i"
             THEN RefMerge(local, Tail(imported), Tail(answers),
                           [acc EXCEPT !.entries =
                                           Append(SubSeq(@, 1, first - 1)
                                                      \o SubSeq(@, first + 1, Len(@)), e),
                                       !.imported = @ + 1, !.overwritten = @ + 1])
             ELSE RefMerge(local, Tail(imported), Tail(answers),
                           [acc EXCEPT !.skipped = @ + 1])

Reference(local, imported, answers) ==
    RefMerge(local, imported, answers,
             [entries |-> local, imported |-> 0, overwritten |-> 0, skipped |-> 0])

Report(m) ==
    [entries |-> m.mergedSecrets, imported |-> m.importedCount,
     overwritten |-> m.overwrittenCount, skipped |-> m.skippedCount]

NameSeq(secrets) == [j \in 1..Len(secrets) |-> secrets[j].Name]

\* C13: a finished merge saved the store, and printed the counts, that the
\* reference algorithm gives for the same local store, imported store and
\* resolver answers, with the local store's version; for local names a, b
\* and imported names b, c, answering 'i' gives local a, imported b,
\* imported c with 2 imported, 1 overwritten, 0 skipped, and answering 'l'
\* gives local a, local b, imported c with 1 imported, 0 overwritten, 1 skipped.
C13_MergeIsReference ==
    (mg.active /\ mg.done) =>
        LET local == mg.cur.Secrets
            saved == LoadStore(file, mg.storePassword)
            example == NameSeq(local) = <<"a", "b">> /\ NameSeq(mg.imp) = <<"b", "c">>
        IN  /\ Report(mg) = Reference(local, mg.imp, mg.answers)
            /\ LoadOk(saved)
            /\ saved.store = Store(mg.cur.Version, Reference(local, mg.imp, mg.answers).entries)
            /\ (example /\ mg.answers = <<"i">>) =>
                   Report(mg) = [entries |-> <<local[1], mg.imp[1], mg.imp[2]>>,
                                 imported |-> 2, overwritten |-> 1, skipped |-> 0]
            /\ (example /\ mg.answers = <<"l">>) =>
                   Report(mg) = [entries |-> <<local[1], local[2], mg.imp[2]>>,
                                 imported |-> 1, overwritten |-> 0, skipped |-> 1]

C13_Witness ==
    /\ mg.active /\ mg.done
    /\ NameSeq(mg.cur.Secrets) = <<"a", "b">>
    /\ NameSeq(mg.imp) = <<"b", "c">>
    /\ mg.answers = <<"i">>
    /\ NameSeq(LoadStore(file, mg.storePassword).store.Secrets) = <<"a", "b", "c">>

\* C14: whatever the imported store and the answers, the store saved by a
\* merge into a local store with pairwise distinct names has pairwise
\* distinct names.
C14_MergeNamesDistinct ==
    (mg.active /\ mg.done /\ DistinctNames(mg.cur.Secrets)) =>
        DistinctNames(LoadStore(file, mg.storePassword).store.Secrets)

(***************************************************************************)
(* The passphrase cache                                                    *)
(***************************************************************************)
\* C15: a GetMasterPassword call made after the expiry of the last stored
\* entry returns the empty passphrase without an error and leaves no cache
\* file; one made no later than the expiry, with no clear or overwrite since
\* the set, returns the stored passphrase; and whenever a call returns a
\* passphrase, the entry it read expires no earlier than the time of the call.
C15_Step ==
    (cacheCall' # cacheCall /\ cacheCall'.op = "get") =>
        /\ (lastSet.valid /\ now > lastSet.expiresAt) =>
               /\ cacheCall'.password = ""
               /\ cacheCall'.err = "nil"
               /\ ~cacheFile'.exists
        /\ (lastSet.valid /\ now <= lastSet.expiresAt) =>
               /\ cacheCall'.password = lastSet.password
               /\ cacheCall'.err = "nil"
               /\ cacheFile' = cacheFile
        /\ cacheCall'.password # "" =>
               /\ cacheFile.exists
               /\ cacheFile.data.b64.pt.expiresAt >= now

C15_CacheExpiry == [][C15_Step]_vars

C15_Witness ==
    /\ cacheCall.op = "get"
    /\ cacheCall.had
    /\ lastSet.valid
    /\ cacheCall.at = lastSet.expiresAt + 1
    /\ cacheCall.password = ""
    /\ ~cacheFile.exists

\* C16: a SetMasterPassword call with a timeout of zero or less leaves what
\* ClearMasterPassword leaves, whatever was there: no cache file, nothing
\* written, no error; ClearMasterPassword removes the file when it is there,
\* returns no error when it is not, and clearing again changes nothing.
C16_Step ==
    /\ (cacheCall' # cacheCall /\ cacheCall'.op = "set" /\ cacheCall'.timeout <= 0) =>
           /\ ~cacheFile'.exists
           /\ cacheFile' = ClearMasterPassword(cacheFile)
           /\ tmpFile' = tmpFile
           /\ cacheCall'.err = "nil"
    /\ (cacheCall' # cacheCall /\ cacheCall'.op = "clear") =>
           /\ ~cacheFile'.exists
           /\ cacheCall'.err = "nil"
           /\ ClearMasterPassword(cacheFile') = cacheFile'

C16_SetZeroIsClear == [][C16_Step]_vars

C16_Witness ==
    /\ cacheCall.op = "set"
    /\ cacheCall.timeout = 0
    /\ cacheCall.had
    /\ ~cacheFile.exists

(***************************************************************************)
(* The cache in the commands                                               *)
(***************************************************************************)
\* C17: when a command that uses the cache starts while the cache file does
\* not decode, authenticate or deserialize, getPassword warns, asks the user
\* for the passphrase and the command goes on to load the store with what
\* was typed; no command ends because of the cache.
C17_Step ==
    (~Running /\ run' # run /\ run'.op \in CachingOps /\ cacheFile \in CorruptCaches) =>
        /\ run'.pc = "load"
        /\ exited' = "running"
        /\ ~run'.fromCache
        /\ run'.password \in Passphrases
        /\ GetMasterPassword(cacheFile, HostKey, now).err # "nil" => run'.warned
        /\ run'.out # "password_error"

C17_CorruptCacheBypassed == [][C17_Step]_vars

C17_Witness ==
    /\ run.pc = "done" /\ exited = "normal"
    /\ run.op = "list" /\ run.out = "ok"
    /\ run.warned

Holds(f, password, expiresAt) ==
    /\ f.exists
    /\ "b64" \in DOMAIN f.data
    /\ "short" \notin DOMAIN f.data.b64
    /\ f.data.b64.pt = CacheData(password, expiresAt)

\* C18: the program writes a cache entry (to the .tmp file or the cache
\* file) only for a passphrase that LoadStore has accepted in the running
\* command, with expiry five minutes after that load; and every command that
\* loaded the store and ends undisturbed (other than a completed passphrase
\* change) leaves the cache holding that passphrase with that expiry.
C18_Step ==
    /\ (tmpFile' # tmpFile /\ tmpFile'.exists) =>
           /\ run.loadOk
           /\ LoadOk(LoadStore(file, run.password))
           /\ Holds(tmpFile', run.password, run.unlockAt + CacheTimeout)
    /\ (cacheFile' # cacheFile /\ cacheFile'.exists) =>
           /\ run.loadOk
           /\ LoadOk(LoadStore(file, run.password))
           /\ Holds(cacheFile', run.password, run.unlockAt + CacheTimeout)
    /\ (Running /\ run'.pc = "done" /\ exited' = "normal" /\ run.loadOk
            /\ ~run.signalled /\ run'.out # "changed") =>
           Holds(cacheFile', run.password, run.unlockAt + CacheTimeout)

C18_OnlyVerifiedCached == [][C18_Step]_vars

\* C19: when change-master ends after saving under a new passphrase that
\* differs from the old one, the store file loads under the new passphrase
\* with the store as it was loaded, does not load under the old one, and no
\* cache file exists; when the two inputs differ the store file is left as
\* it was and still loads under the old passphrase.
C19_Step ==
    (run.pc = "body" /\ run.op = "change-master" /\ run'.pc = "done" /\ exited' = "normal") =>
        /\ run'.out \in {"changed", "mismatch"}
        /\ (run'.out = "changed" /\ run'.newPassword # run.password) =>
               /\ LoadOk(LoadStore(file', run'.newPassword))
               /\ LoadStore(file', run'.newPassword).store = run.store
               /\ LoadStore(file, run.password).store = run.store
               /\ ~LoadOk(LoadStore(file', run.password))
               /\ ~cacheFile'.exists
        /\ run'.out = "mismatch" =>
               /\ file' = file
               /\ LoadOk(LoadStore(file', run.password))

C19_ChangeMaster == [][C19_Step]_vars

C19_Witness ==
    /\ run.pc = "done" /\ exited = "normal"
    /\ run.op = "change-master" /\ run.out = "changed"
    /\ run.newPassword # run.password
    /\ run.store.Secrets # <<>>
    /\ LoadOk(LoadStore(file, run.newPassword))
    /\ ~cacheFile.exists

\* C20: once a process that received SIGINT or SIGTERM has been ended by the
\* listener's os.Exit, no cache file exists.
C20_ClearedOnInterrupt ==
    (run.pc = "done" /\ exited = "signal") => ~cacheFile.exists

(***************************************************************************)
(* Properties of the cache calls step by step (checked under SpecSteps)    *)
(***************************************************************************)
\* C21: while GetMasterPassword is between reading the cache file and
\* returning, no step of the signal listener changes the cache file, and
\* the listener wipes the file only while no read lock is held (it takes
\* the exclusion lock of the read first).
C21_Step ==
    /\ (cacheOp.pc = "read" /\ cacheOp'.pc = "read" /\ sig' # sig) => cacheFile' = cacheFile
    /\ (sig = "clear" /\ sig' = "exit") => mutex = 0

C21_ReadExcludesCleanup == [][C21_Step]_vars

\* a complete blob that a SetMasterPassword call of this run sealed
WholeBlob(f) ==
    /\ f.exists
    /\ "b64" \in DOMAIN f.data
    /\ "pt" \in DOMAIN f.data.b64
    /\ "password" \in DOMAIN f.data.b64.pt
    /\ f.data.b64.nonce \in 1..setCtr
    /\ f = CacheBlob(f.data.b64.pt.password, f.data.b64.pt.expiresAt, HostKey,
                     f.data.b64.nonce)

\* what a reader may find while the call under way is a SetMasterPassword
OldOrNew(f) ==
    /\ f = NoCacheFile \/ WholeBlob(f)
    /\ cacheOp.op = "set" => f \in {NoCacheFile, cacheOp.old, cacheOp.data}

\* C26: SetMasterPassword writes the blob to cacheFile+".tmp" and renames
\* it over the cache file: what a GetMasterPassword reads, in this process
\* or in another one, during the call or after the process was killed in
\* it, is no file, the complete previous blob or the complete new blob;
\* a successful rename puts the new blob in place and leaves no .tmp file;
\* a failed rename removes the .tmp file, leaves the cache file as it was
\* and returns an error.
C26_Step ==
    /\ (cacheCall'.n # cacheCall.n /\ cacheCall'.op = "peer_get") => OldOrNew(cacheFile)
    /\ (cacheOp.pc = "locked" /\ cacheOp'.pc = "read") => OldOrNew(cacheOp'.data)
    /\ (cacheOp.pc \in {"open", "write"} /\ cacheOp'.pc \in {"write", "rename"}
            /\ cacheOp'.pc # cacheOp.pc)
           => (tmpFile'.exists /\ cacheFile' = cacheFile)
    /\ (cacheOp.pc = "rename" /\ cacheCall'.n # cacheCall.n /\ cacheCall'.op = "set")
           => IF cacheCall'.err = "nil"
              THEN cacheFile' = cacheOp.data /\ WholeBlob(cacheFile') /\ ~tmpFile'.exists
              ELSE cacheFile' = cacheFile /\ ~tmpFile'.exists /\ cacheCall'.err = "rename"

C26_AtomicCacheWrite == [][C26_Step]_vars

\* a second process reads the cache while a SetMasterPassword that replaces
\* an older blob has written its .tmp file and not yet renamed it
C26_Witness ==
    /\ cacheCall.op = "peer_get"
    /\ cacheCall.password # ""
    /\ cacheOp.op = "set" /\ cacheOp.pc = "rename"
    /\ cacheOp.old.exists
    /\ tmpFile = cacheOp.data
    /\ cacheFile = cacheOp.old

(***************************************************************************)
(* Properties of add followed by update (checked under SpecUpdate)         *)
(***************************************************************************)
\* C22: an entry added by the add command carries the time of its creation
\* as created_at (a reading of the clock, never the zero time), and an
\* update command leaves the number of entries, and the name and the
\* created_at of every entry, as they were.
C22_Step ==
    /\ (cmd'.op = "add" /\ cmd'.out = "added") =>
           \A r \in {LoadStore(file', cmd'.pw)} :
               /\ LoadOk(r)
               /\ r.store.Secrets[Len(r.store.Secrets)].Name = cmd'.name
               /\ r.store.Secrets[Len(r.store.Secrets)].CreatedAt # ZeroTime
    /\ (cmd'.op = "update" /\ cmd'.out = "updated") =>
           \A r \in {LoadStore(file, cmd'.pw)}, q \in {LoadStore(file', cmd'.pw)} :
               /\ LoadOk(r) /\ LoadOk(q)
               /\ Len(q.store.Secrets) = Len(r.store.Secrets)
               /\ \A i \in 1..Len(r.store.Secrets) :
                      /\ q.store.Secrets[i].Name = r.store.Secrets[i].Name
                      /\ q.store.Secrets[i].CreatedAt = r.store.Secrets[i].CreatedAt

C22_CreatedAtSetOnce == [][C22_Step]_vars

(***************************************************************************)
(* Further properties of the store engine                                  *)
(***************************************************************************)
\* C23: a store that LoadStore returns without error has version 1 at most:
\* a file whose plaintext carries a higher version is rejected with an
\* error (or comes back migrated to version 1). Checked under Spec.
C23_HigherVersionRejected ==
    (pc = "loaded" /\ loaded.called /\ LoadOk(loaded.r))
        => loaded.r.store.Version <= CurrentVersion

\* C24: when a step of SaveStore fails (drawing the salt, reading the
\* existing file, encrypting, creating the directory, opening or writing
\* the file), SaveStore returns the error of that step: it does not abort,
\* does not report success and does not report another step's error; and
\* when it reports success the new bytes are the file. Checked under
\* SpecFault.
C24_FailuresReturned ==
    /\ fault.step # "none" => (result = "error" /\ fault.err = fault.step)
    /\ result = "ok" => file = FileOf(saveData)

\* C25: SaveStore onto an existing file shorter than 28 bytes (a zero-byte
\* file included) returns an error: it does not go on to write a file whose
\* salt is taken from the short file. Checked under Spec.
C25_ShortExistingIsCorrupt ==
    (saveOld.exists /\ Len(saveOld.data) < HeaderLen)
        => (pc \notin {"save_open", "save_write"} /\ result # "ok")

(***************************************************************************)
(* Further properties of import (checked under SpecImport)                 *)
(***************************************************************************)
\* C28: when import --merge finishes, imported + skipped is the number of
\* entries of the imported store, overwritten is at most imported, and the
\* merged store, in memory and as saved, has as many entries as the local
\* store had, plus imported, minus overwritten.
C28_CountsConserved ==
    (mg.active /\ mg.done) =>
        /\ mg.importedCount + mg.skippedCount = Len(mg.imp)
        /\ mg.overwrittenCount <= mg.importedCount
        /\ Len(mg.mergedSecrets)
               = Len(mg.cur.Secrets) + mg.importedCount - mg.overwrittenCount
        /\ Len(LoadStore(file, mg.storePassword).store.Secrets) = Len(mg.mergedSecrets)

C28_Witness ==
    /\ mg.active /\ mg.done
    /\ mg.overwrittenCount = 1
    /\ mg.skippedCount = 1
    /\ Len(mg.cur.Secrets) = 2

\* C29: an import whose import file is missing, empty or does not load
\* with the given passphrase, and an import --merge whose local store does
\* not load, leaves the store file with the bytes it had.
C29_Step ==
    (/\ cmd = NoCmd /\ cmd'.op = "import"
     /\ \/ ~cmd'.valid
        \/ cmd'.name = "merge" /\ ~LoadOk(LoadStore(file, cmd'.pw)))
        => file' = file

C29_FailedImportWritesNothing == [][C29_Step]_vars

\* a merge into a store file that does not open with the passphrase given
C29_Witness ==
    /\ cmd.op = "import" /\ cmd.name = "merge" /\ cmd.valid
    /\ cmd.out = "load_error"
    /\ file.exists
    /\ ~LoadOk(LoadStore(file, cmd.pw))

(***************************************************************************)
(* Properties of command sequences with import (checked under SpecKeep)    *)
(***************************************************************************)
\* C27: whatever commands have run, a passphrase that GetMasterPassword
\* returns opens the store file, if there is one: no command leaves the
\* store file sealed under another passphrase than the cached one.
C27_CachedPassphraseValid ==
    \A r \in {GetMasterPassword(cacheFile, HostKey, now)} :
        (r.password # "" /\ file.exists) => LoadOk(LoadStore(file, r.password))

(***************************************************************************)
(* Properties of the page loop of list (checked under SpecList)            *)
(***************************************************************************)
Paging == pg.pc \in {"display", "prompt", "returned"} /\ pg.n > 0

\* the part of C30 about the range, the 'q' line and the single page
C30_RangeQuitSingle ==
    Paging =>
        /\ pg.currentPage \in 0..(pg.totalPages - 1)
        /\ pg.last = <<"q">> => pg.pc = "returned"
        /\ (pg.totalPages = 1 /\ pg.displays >= 1) => (pg.pc = "returned" /\ pg.displays = 1)

\* C30: in the page loop of list currentPage stays within 0..totalPages-1,
\* the command has returned once the line 'q' was read or the end of stdin
\* was met, and with a single page it returns after one display.
C30_PagedListTerminates ==
    /\ C30_RangeQuitSingle
    /\ (Paging /\ pg.eof) => pg.pc = "returned"

\* several pages, the last one reached, and 'q' read
C30_Witness ==
    /\ Paging
    /\ pg.totalPages > 2
    /\ pg.out = "quit"
    /\ pg.displays > 2

====
